---- MODULE Spec2Model ----
(***************************************************************************)
(* Verification model of the query routing and execution engine of         *)
(* agentic_poc: the SQL safety validator, the router decision, the three   *)
(* pipelines run by run_agent, the ask endpoint, the conversation memory   *)
(* store and the daily rate limiter.                                       *)
(*                                                                         *)
(* Text is modelled as a sequence of one-character strings, so that the    *)
(* regular expressions and substring tests of the code are computed on     *)
(* characters, as the code computes them.                                  *)
(***************************************************************************)
EXTENDS Integers, Sequences, FiniteSets, TLC

VARIABLES
    \* ---- validator harness (SpecValidate) ----
    sql_query,      \* the text handed to _validate_sql_query
    vpc,            \* "input" before the call, "validated" after it
    validation,     \* the (is_valid, error_message) pair it returned
    \* ---- router decision harness (SpecRoute) ----
    content,        \* response.content of the classification call
    structured,     \* _looks_structured(question)
    documentary,    \* _looks_documentary(question)
    rpc,            \* "input" before the decision, "decided" after it
    route,          \* the value _decide_route returned
    \* ---- citation harness (SpecCite) ----
    doc_source,     \* the source named by the metadata of a retrieved passage
    cpc,            \* "input" before _build_citations, "built" after it
    citation,       \* the citation _build_citations made of the passage
    \* ---- the service (Spec, SpecAgent, SpecLimiter) ----
    now,            \* the clock read by time.time(), utcnow() and date.today()
    rate_limit,     \* the rate_limit table: (identifier, date) -> row
    conversation_store,  \* _conversation_store: session id -> ConversationHistory
    reqs,           \* the ask requests in flight: locals of ask_question and run_agent
    accepted,       \* history: requests that passed the quota check, per (identifier, date)
    asked,          \* history: the ask requests that have arrived
    resets,         \* history: the calls of the reset endpoint
    \* ---- the limiter called directly (SpecLimiter) ----
    last_call,      \* the last call of the limiter and what it returned or raised
    records,        \* history: record_interaction calls since the last reset
    \* ---- the conversation memory called directly (SpecMemory, SpecPrompt) ----
    session_call    \* the last call of the conversation memory and what it returned

citeVars == <<doc_source, cpc, citation>>
pureVars == <<sql_query, vpc, validation, content, structured, documentary, rpc, route,
              citeVars>>
serviceVars == <<now, rate_limit, conversation_store, reqs, accepted, asked, resets>>
limiterVars == <<last_call, records, session_call>>
vars == <<pureVars, serviceVars, limiterVars>>

(***************************************************************************)
(* Bounds of the model.                                                    *)
(***************************************************************************)
\* An input of the validator harness is the concatenation of at most
\* MaxPieces pieces: pieces of SqlPieces and at most one forbidden keyword.
MaxPieces == 3
\* A classifier reply of the router harness is the concatenation of at most
\* MaxReplyPieces pieces of ReplyPieces.
MaxReplyPieces == 3
\* ask requests handled at the same time
MaxReq == 2
\* the clock runs from 0 to MaxTime; a day has TicksPerDay ticks
MaxTime == 1
TicksPerDay == 1
\* settings.session_ttl_seconds and settings.daily_interaction_limit as
\* configured for the service model
session_ttl_seconds == 0
daily_interaction_limit == 2
\* ask requests that arrive, and calls of the reset endpoint, in one behaviour
MaxAsks == 3
\* ask requests that arrive in one behaviour of the single-request runs
MaxAgentAsks == 1
MaxResets == 1
\* record_interaction calls in one behaviour of the limiter called directly
MaxRecords == 21
\* record_interaction calls in one behaviour of the table runs
MaxTableRecords == 3
MaxLag == 1
MaxSourcePieces == 2
MaxMemoryExchanges == 2
MaxPromptExchanges == 11

(***************************************************************************)
(* Characters and text.                                                    *)
(***************************************************************************)
LowerLetters ==
    <<"a","b","c","d","e","f","g","h","i","j","k","l","m",
      "n","o","p","q","r","s","t","u","v","w","x","y","z">>
UpperLetters ==
    <<"A","B","C","D","E","F","G","H","I","J","K","L","M",
      "N","O","P","Q","R","S","T","U","V","W","X","Y","Z">>
Digits == {"0","1","2","3","4","5","6","7","8","9"}

Range(f) == {f[i] : i \in DOMAIN f}

\* str.upper() on one character
UpperMap ==
    [c \in Range(LowerLetters) |-> UpperLetters[CHOOSE i \in 1..26 : LowerLetters[i] = c]]

UpperChar(c) == IF c \in DOMAIN UpperMap THEN UpperMap[c] ELSE c

\* str.upper()
Upper(s) == [i \in 1..Len(s) |-> UpperChar(s[i])]

\* str.lower()
Lower(s) ==
    [i \in 1..Len(s) |->
        IF s[i] \in Range(UpperLetters)
        THEN LowerLetters[CHOOSE k \in 1..26 : UpperLetters[k] = s[i]]
        ELSE s[i]]

\* \s of the re module and the characters str.strip() removes
SpaceChars == {" ", "\n", "\t", "\r"}

IsSpace(c) == c \in SpaceChars

\* \w of the re module (what \b is defined by)
WordChars == Range(LowerLetters) \cup Range(UpperLetters) \cup Digits \cup {"_"}

IsWordChar(c) == c \in WordChars

RECURSIVE LStrip(_)
LStrip(s) == IF s # <<>> /\ IsSpace(Head(s)) THEN LStrip(Tail(s)) ELSE s

RECURSIVE RStrip(_)
RStrip(s) ==
    IF s # <<>> /\ IsSpace(s[Len(s)]) THEN RStrip(SubSeq(s, 1, Len(s) - 1)) ELSE s

\* str.strip()
Strip(s) == RStrip(LStrip(s))

\* re.sub(r'\s+', ' ', s): every maximal run of whitespace becomes one space
RECURSIVE CollapseSpaces(_)
CollapseSpaces(s) ==
    IF s = <<>> THEN <<>>
    ELSE IF IsSpace(Head(s))
         THEN <<" ">> \o CollapseSpaces(LStrip(s))
         ELSE <<Head(s)>> \o CollapseSpaces(Tail(s))

\* s[i:i+len(w)] == w
MatchAt(s, w, i) ==
    /\ i >= 1
    /\ i + Len(w) - 1 <= Len(s)
    /\ \A k \in 1..Len(w) : s[i + k - 1] = w[k]

\* w in s
Contains(s, w) == \E i \in 1..(Len(s) + 1) : MatchAt(s, w, i)

\* s.startswith(w)
StartsWith(s, w) == MatchAt(s, w, 1)

\* re.search(r'\b' + re.escape(w) + r'\b', s) for a keyword w made of word
\* characters: an occurrence with no word character right before or after it
ContainsWord(s, w) ==
    \E i \in 1..Len(s) :
        /\ MatchAt(s, w, i)
        /\ (i = 1 \/ ~IsWordChar(s[i - 1]))
        /\ (i + Len(w) > Len(s) \/ ~IsWordChar(s[i + Len(w)]))

\* re.sub(r'--.*?$', '', s, flags=re.MULTILINE): from each -- up to, and not
\* including, the next newline (or the end of the text)
RECURSIVE SkipToEol(_)
SkipToEol(s) == IF s = <<>> \/ Head(s) = "\n" THEN s ELSE SkipToEol(Tail(s))

RECURSIVE StripLineComments(_)
StripLineComments(s) ==
    IF s = <<>> THEN <<>>
    ELSE IF MatchAt(s, <<"-", "-">>, 1)
         THEN StripLineComments(SkipToEol(s))
         ELSE <<Head(s)>> \o StripLineComments(Tail(s))

\* re.sub(r'/\*.*?\*/', '', s, flags=re.DOTALL): from each /* to the first */
\* that starts after it; an unterminated /* is left in place
RECURSIVE StripBlockComments(_)
StripBlockComments(s) ==
    IF s = <<>> THEN <<>>
    ELSE IF /\ MatchAt(s, <<"/", "*">>, 1)
            /\ \E j \in 3..Len(s) : MatchAt(s, <<"*", "/">>, j)
         THEN LET j == CHOOSE j \in 3..Len(s) :
                         /\ MatchAt(s, <<"*", "/">>, j)
                         /\ \A k \in 3..(j - 1) : ~MatchAt(s, <<"*", "/">>, k)
              IN  StripBlockComments(SubSeq(s, j + 2, Len(s)))
         ELSE <<Head(s)>> \o StripBlockComments(Tail(s))

(***************************************************************************)
(* SQL safety validator.                                                   *)
(***************************************************************************)
\* settings.dangerous_sql_keywords, in the order of the list
dangerous_sql_keywords ==
    << <<"D","R","O","P">>,
       <<"D","E","L","E","T","E">>,
       <<"U","P","D","A","T","E">>,
       <<"I","N","S","E","R","T">>,
       <<"A","L","T","E","R">>,
       <<"C","R","E","A","T","E">>,
       <<"T","R","U","N","C","A","T","E">>,
       <<"E","X","E","C">>,
       <<"E","X","E","C","U","T","E">>,
       <<"M","E","R","G","E">>,
       <<"R","E","P","L","A","C","E">> >>

SELECT == <<"S","E","L","E","C","T">>

\* mutant of Normalize: the text is not upper-cased
NormalizeKeepingCase(q) == CollapseSpaces(Strip(q))

\* normalized = re.sub(r'\s+', ' ', sql_query.upper().strip())
Normalize(q) == CollapseSpaces(Strip(Upper(q)))

\* the comment removal of the validator, on the normalized text
NoComments(normalized) == Strip(StripBlockComments(StripLineComments(normalized)))

\* the error messages of the validator; the forbidden-operation message
\* ends with the keyword
EmptyError == <<"SQL query cannot be empty">>
ForbiddenError(keyword) == <<"SQL query contains forbidden operation: ">> \o keyword
NotSelectError == <<"SQL query must be a SELECT statement only">>
NoError == <<>>

\* the for loop over the keywords: the first keyword of the list found as a
\* whole word
ForbiddenHits(normalized) ==
    {i \in DOMAIN dangerous_sql_keywords :
        ContainsWord(normalized, dangerous_sql_keywords[i])}

validate_sql_query(q) ==
    IF q = <<>> \/ Strip(q) = <<>>
    THEN [is_valid |-> FALSE, error |-> EmptyError]
    ELSE LET normalized == Normalize(q)
             hits == ForbiddenHits(normalized)
         IN  IF hits # {}
             THEN [is_valid |-> FALSE,
                   error |-> ForbiddenError(
                       dangerous_sql_keywords[CHOOSE i \in hits : \A j \in hits : i <= j])]
             ELSE IF ~StartsWith(NoComments(normalized), SELECT)
                  THEN [is_valid |-> FALSE, error |-> NotSelectError]
                  ELSE [is_valid |-> TRUE, error |-> NoError]

(***************************************************************************)
(* Router decision.                                                        *)
(***************************************************************************)
RAG_ROUTE == "RAG"
SQL_ROUTE == "SQL"
HYBRID_ROUTE == "HYBRID"
\* _decide_route returns None when no route is chosen
NONE_ROUTE == "NONE"

\* mutant of decide_route: an explicit NONE falls back to the hints
decide_route_none_falls_back(reply, looks_structured, looks_documentary) ==
    LET choice == Upper(Strip(reply))
    IN  IF \/ Contains(choice, <<"B","O","T","H">>)
           \/ Contains(choice, <<"H","Y","B","R","I","D">>)
        THEN HYBRID_ROUTE
        ELSE IF Contains(choice, <<"S","Q","L">>) THEN SQL_ROUTE
        ELSE IF Contains(choice, <<"R","A","G">>) THEN RAG_ROUTE
        ELSE IF looks_structured /\ looks_documentary THEN HYBRID_ROUTE
        ELSE IF looks_structured THEN SQL_ROUTE
        ELSE IF looks_documentary THEN RAG_ROUTE
        ELSE NONE_ROUTE

\* mutant of decide_route: the fallback tests the structured hint first, so
\* both hints together give SQL
decide_route_structured_first(reply, looks_structured, looks_documentary) ==
    LET choice == Upper(Strip(reply))
    IN  IF \/ Contains(choice, <<"B","O","T","H">>)
           \/ Contains(choice, <<"H","Y","B","R","I","D">>)
        THEN HYBRID_ROUTE
        ELSE IF Contains(choice, <<"S","Q","L">>) THEN SQL_ROUTE
        ELSE IF Contains(choice, <<"R","A","G">>) THEN RAG_ROUTE
        ELSE IF Contains(choice, <<"N","O","N","E">>) THEN NONE_ROUTE
        ELSE IF looks_structured THEN SQL_ROUTE
        ELSE IF looks_documentary THEN RAG_ROUTE
        ELSE NONE_ROUTE

\* the resolution of _decide_route once the classification call has returned
\* response.content: explicit choices first, then the heuristic hints
decide_route(reply, looks_structured, looks_documentary) ==
    LET choice == Upper(Strip(reply))
    IN  IF \/ Contains(choice, <<"B","O","T","H">>)
           \/ Contains(choice, <<"H","Y","B","R","I","D">>)
        THEN HYBRID_ROUTE
        ELSE IF Contains(choice, <<"S","Q","L">>) THEN SQL_ROUTE
        ELSE IF Contains(choice, <<"R","A","G">>) THEN RAG_ROUTE
        ELSE IF Contains(choice, <<"N","O","N","E">>) THEN NONE_ROUTE
        ELSE IF looks_structured /\ looks_documentary THEN HYBRID_ROUTE
        ELSE IF looks_structured THEN SQL_ROUTE
        ELSE IF looks_documentary THEN RAG_ROUTE
        ELSE NONE_ROUTE

(***************************************************************************)
(* Inputs of the two harnesses.                                            *)
(***************************************************************************)
RECURSIVE Concat(_)
Concat(pieces) == IF pieces = <<>> THEN <<>> ELSE Head(pieces) \o Concat(Tail(pieces))

Texts(pieces, n) == {Concat(p) : p \in UNION {[1..k -> pieces] : k \in 0..n}}

\* pieces generated SQL is put together from, next to the forbidden
\* keywords: words, blanks, newlines, comment markers and quotes
SqlPieces ==
    { SELECT,
      <<"s","e","l","e","c","t">>,
      <<"d","r","o","p">>,
      <<"W","I","T","H">>,
      <<"D","_","A","T">>,
      <<" ","T","A","B","L","E"," ","x">>,
      <<" ">>, <<"\n">>, <<"'">>,
      <<"-","-">>, <<"/","*">>, <<"*","/">> }

\* the inputs of the validator harness: at most n pieces, of which at most
\* one is a forbidden keyword as listed (upper case), at any position
IsSqlText(q, n) ==
    \E i \in 0..(n - 1) :
        LET before == Texts(SqlPieces, i)
            after == Texts(SqlPieces, n - 1 - i)
        IN  \E mid \in Range(dangerous_sql_keywords) \cup SqlPieces \cup {<<>>} :
                \E pre \in before, post \in after : q = pre \o mid \o post

\* pieces a classifier reply is put together from
ReplyPieces ==
    { <<"S","Q","L">>, <<"R","A","G">>, <<"B","O","T","H">>,
      <<"H","Y","B","R","I","D">>, <<"N","O","N","E">>,
      <<"s","q","l">>, <<"n","o","n","e">>, <<"r","a","g">>,
      <<"o","r">>, <<" ">>, <<"\n">>, <<"x">>, <<".">> }

(***************************************************************************)
(* Validator harness: an input is drawn, _validate_sql_query is called.    *)
(***************************************************************************)
NoValidation == [is_valid |-> FALSE, error |-> <<"not called">>]

RouteIdle ==
    /\ content = <<>>
    /\ structured = FALSE
    /\ documentary = FALSE
    /\ rpc = "off"
    /\ route = "-"

ValidateIdle ==
    /\ sql_query = <<>>
    /\ vpc = "off"
    /\ validation = NoValidation

ValidateInput ==
    /\ IsSqlText(sql_query, MaxPieces)
    /\ vpc = "input"
    /\ validation = NoValidation
    /\ RouteIdle

Validate ==
    /\ vpc = "input"
    /\ validation' = validate_sql_query(sql_query)
    /\ vpc' = "validated"
    /\ UNCHANGED <<sql_query, content, structured, documentary, rpc, route>>
    /\ UNCHANGED <<citeVars, serviceVars, limiterVars>>

NextValidate == Validate


(***************************************************************************)
(* Router harness: a reply and the two hints are drawn, the route decided. *)
(***************************************************************************)
RouteInput ==
    /\ \E p \in UNION {[1..k -> ReplyPieces] : k \in 0..MaxReplyPieces} : content = Concat(p)
    /\ structured \in BOOLEAN
    /\ documentary \in BOOLEAN
    /\ rpc = "input"
    /\ route = "-"
    /\ ValidateIdle

Decide ==
    /\ rpc = "input"
    /\ route' = decide_route(content, structured, documentary)
    /\ rpc' = "decided"
    /\ UNCHANGED <<sql_query, vpc, validation, content, structured, documentary>>
    /\ UNCHANGED <<citeVars, serviceVars, limiterVars>>

NextRoute == Decide


(***************************************************************************)
(* Claims about the validator (checked under SpecValidate).                *)
(***************************************************************************)
\* keyword occurs in the raw input as a whole word, in any letter case
OccursAsWord(q, keyword) == ContainsWord(Upper(q), keyword)

NamedKeywords(q) ==
    LET u == Upper(q) IN {k \in Range(dangerous_sql_keywords) : ContainsWord(u, k)}

TABLE_x == <<" ","T","A","B","L","E"," ","x">>

\* C2: an input in which a forbidden keyword occurs as a whole word, in any
\* letter case and wherever it stands (also inside a comment or a string
\* literal), is rejected with a reason that names a forbidden keyword
\* occurring in the input; K TABLE x is rejected naming K, for every
\* forbidden keyword K; and the forbidden-operation reason is given only
\* when a keyword occurs as a whole word (not for CREATED_AT).
C2_ForbiddenKeywordRejected ==
    vpc = "validated" =>
        LET named == NamedKeywords(sql_query)
        IN  /\ named # {} =>
                  /\ ~validation.is_valid
                  /\ \E k \in named : validation.error = ForbiddenError(k)
            /\ \A k \in Range(dangerous_sql_keywords) :
                  sql_query = k \o TABLE_x =>
                      /\ ~validation.is_valid
                      /\ validation.error = ForbiddenError(k)
            /\ named = {} =>
                  \A k \in Range(dangerous_sql_keywords) :
                      validation.error # ForbiddenError(k)

\* a lower-case keyword inside a line comment after a SELECT is rejected
C2_Witness ==
    /\ vpc = "validated"
    /\ sql_query = SELECT \o <<"-","-">> \o <<"d","r","o","p">>
    /\ validation = [is_valid |-> FALSE, error |-> ForbiddenError(<<"D","R","O","P">>)]

\* what remains of the input after removing each line comment up to the end
\* of its own line, then the block comments, and trimming
WithoutComments(q) == Strip(StripBlockComments(StripLineComments(Upper(q))))

\* C3: an input with no forbidden keyword is accepted if and only if what
\* remains after removing line comments (each up to the end of its own
\* line) and block comments and trimming starts with SELECT, in any letter
\* case; a rejected input gets a non-empty reason.
C3_AcceptIffSelectAfterComments ==
    (vpc = "validated" /\ NamedKeywords(sql_query) = {}) =>
        /\ validation.is_valid <=> StartsWith(WithoutComments(sql_query), SELECT)
        /\ ~validation.is_valid => validation.error # NoError

(***************************************************************************)
(* Claims about the router decision (checked under SpecRoute).             *)
(***************************************************************************)
\* the reply names the option, in any letter case
Names(reply, option) == Contains(Upper(reply), option)

NamesHybrid(reply) ==
    Names(reply, <<"B","O","T","H">>) \/ Names(reply, <<"H","Y","B","R","I","D">>)
NamesSql(reply) == Names(reply, <<"S","Q","L">>)
NamesRag(reply) == Names(reply, <<"R","A","G">>)
NamesNone(reply) == Names(reply, <<"N","O","N","E">>)

\* the reply names none of SQL, RAG, BOTH, HYBRID, NONE
Unparseable(reply) ==
    ~(NamesHybrid(reply) \/ NamesSql(reply) \/ NamesRag(reply) \/ NamesNone(reply))

\* the reply names more than one of SQL, RAG, NONE
Ambiguous(reply) ==
    Cardinality({o \in {"SQL", "RAG", "NONE"} :
        \/ o = "SQL" /\ NamesSql(reply)
        \/ o = "RAG" /\ NamesRag(reply)
        \/ o = "NONE" /\ NamesNone(reply)}) > 1

\* the decision from the two hints alone
HeuristicRoute(s, d) ==
    IF s /\ d THEN HYBRID_ROUTE
    ELSE IF s THEN SQL_ROUTE
    ELSE IF d THEN RAG_ROUTE
    ELSE NONE_ROUTE

\* C4: an explicit reply is resolved by fixed precedence, whatever the
\* hints are: BOTH/HYBRID gives HYBRID; otherwise SQL gives SQL; otherwise
\* RAG gives RAG; otherwise NONE gives NONE (no fallback to the hints).
C4_ExplicitPrecedence ==
    rpc = "decided" =>
        /\ NamesHybrid(content) => route = HYBRID_ROUTE
        /\ (~NamesHybrid(content) /\ NamesSql(content)) => route = SQL_ROUTE
        /\ (~NamesHybrid(content) /\ ~NamesSql(content) /\ NamesRag(content)) =>
              route = RAG_ROUTE
        /\ (~NamesHybrid(content) /\ ~NamesSql(content) /\ ~NamesRag(content)
              /\ NamesNone(content)) => route = NONE_ROUTE

\* an explicit NONE with both hints true is decided NONE
C4_Witness ==
    /\ rpc = "decided"
    /\ content = <<"n","o","n","e">> \o <<".">>
    /\ structured /\ documentary
    /\ route = NONE_ROUTE

\* C5 as claimed: an ambiguous or unparseable reply is ignored and the route
\* is the one the hints give.
C5_AmbiguousOrUnparseableFallsBack ==
    (rpc = "decided" /\ (Ambiguous(content) \/ Unparseable(content))) =>
        route = HeuristicRoute(structured, documentary)

\* C5 as amended: exactly the unparseable replies are decided from the hints
\* (both: HYBRID, structured only: SQL, documentary only: RAG, neither:
\* NONE); every other reply, the ambiguous ones included, is decided by the
\* precedence of the options it names, whatever the hints are.
C5_UnparseableFallsBack ==
    rpc = "decided" =>
        IF Unparseable(content)
        THEN route = HeuristicRoute(structured, documentary)
        ELSE route = IF NamesHybrid(content) THEN HYBRID_ROUTE
                     ELSE IF NamesSql(content) THEN SQL_ROUTE
                     ELSE IF NamesRag(content) THEN RAG_ROUTE
                     ELSE NONE_ROUTE

\* an unparseable reply with only the documentary hint is decided RAG
C5_Witness ==
    /\ rpc = "decided"
    /\ content = <<"x">> \o <<" ">> \o <<"o","r">>
    /\ ~structured /\ documentary
    /\ route = RAG_ROUTE

(***************************************************************************)
(* The service: clock, rate limiter, conversation memory.                  *)
(***************************************************************************)
Reqs == 1..MaxReq
Identifiers == {"ip1", "ip2"}
Dates == 0..(MaxTime \div TicksPerDay)
\* session ids a client supplies, and the ids uuid.uuid4() generates
ClientSessionIds == {"s1"}
Uuids == {"u1", "u2"}
SessionIds == ClientSessionIds \cup Uuids
NoSessionId == "None"

\* date.today()
DateOf(t) == t \div TicksPerDay
Today == DateOf(now)

\* the rate_limit table is the set of its rows
\* [identifier, date, interaction_count, last_interaction_at]
RowsOf(table, identifier, today) ==
    {row \in table : row.identifier = identifier /\ row.date = today}

\* SELECT interaction_count ... WHERE identifier = ? AND date = ?; fetchone,
\* 0 if no row
get_daily_interaction_count(table, identifier, today) ==
    IF RowsOf(table, identifier, today) = {} THEN 0
    ELSE (CHOOSE row \in RowsOf(table, identifier, today) : TRUE).interaction_count

\* mutant of increment_interaction_count: a plain INSERT, no ON CONFLICT
insert_interaction_count(table, identifier, today, t) ==
    table \cup {[identifier |-> identifier, date |-> today,
                 interaction_count |-> 1, last_interaction_at |-> t]}

\* INSERT ... ON CONFLICT(identifier, date) DO UPDATE SET interaction_count =
\* interaction_count + 1, last_interaction_at = now
increment_interaction_count(table, identifier, today, t) ==
    IF RowsOf(table, identifier, today) = {}
    THEN table \cup {[identifier |-> identifier, date |-> today,
                      interaction_count |-> 1, last_interaction_at |-> t]}
    ELSE {IF row \in RowsOf(table, identifier, today)
          THEN [row EXCEPT !.interaction_count = @ + 1, !.last_interaction_at = t]
          ELSE row : row \in table}

\* check_rate_limit: the RateLimitExceeded it raises, or no exception
NoException == [raised |-> FALSE]

\* mutant of check_rate_limit: the limit itself is still allowed
check_rate_limit_above(table, identifier, daily_limit, today) ==
    LET current_count == get_daily_interaction_count(table, identifier, today)
    IN  IF current_count > daily_limit
        THEN [raised |-> TRUE, identifier |-> identifier,
              current_count |-> current_count, limit |-> daily_limit]
        ELSE NoException

check_rate_limit(table, identifier, daily_limit, today) ==
    LET current_count == get_daily_interaction_count(table, identifier, today)
    IN  IF current_count >= daily_limit
        THEN [raised |-> TRUE, identifier |-> identifier,
              current_count |-> current_count, limit |-> daily_limit]
        ELSE NoException

\* record_interaction: the table afterwards (the value returned is the count
\* read back from it)
record_interaction(table, identifier, today, t) ==
    increment_interaction_count(table, identifier, today, t)

get_remaining_interactions(table, identifier, daily_limit, today) ==
    LET current_count == get_daily_interaction_count(table, identifier, today)
        left == daily_limit - current_count
    IN  IF left > 0 THEN left ELSE 0

\* the rows the UPDATE of reset_daily_count matches: identifier None or
\* empty ("if identifier:") takes the branch without the identifier
ResetRows(table, identifier, today) ==
    {row \in table :
        /\ row.date = today
        /\ (identifier = "None" \/ identifier = "" \/ row.identifier = identifier)}

\* mutant of reset_daily_count: the UPDATE has no date in its WHERE clause
reset_daily_count_any_date(table, identifier, today) ==
    {IF identifier = "None" \/ identifier = "" \/ row.identifier = identifier
     THEN [row EXCEPT !.interaction_count = 0] ELSE row : row \in table}

\* UPDATE rate_limit SET interaction_count = 0 WHERE [identifier = ? AND]
\* date = today
reset_daily_count(table, identifier, today) ==
    {IF row \in ResetRows(table, identifier, today)
     THEN [row EXCEPT !.interaction_count = 0] ELSE row : row \in table}

\* cursor.rowcount of that UPDATE
reset_rowcount(table, identifier, today) ==
    Cardinality(ResetRows(table, identifier, today))

NoSession == [created_at |-> -1, messages |-> <<>>]

\* cleanup_expired_sessions: the ids it collects in expired_sessions
expired_sessions(store, t) ==
    {sid \in DOMAIN store :
        store[sid] # NoSession /\ t - store[sid].created_at > session_ttl_seconds}

\* mutant of cleanup_expired_sessions: a session is expired at the TTL already
cleanup_expired_sessions_at_ttl(store, t) ==
    [sid \in DOMAIN store |->
        IF store[sid] # NoSession /\ t - store[sid].created_at >= session_ttl_seconds
        THEN NoSession ELSE store[sid]]

\* cleanup_expired_sessions: the store without the sessions older than the TTL
cleanup_expired_sessions(store, t) ==
    [sid \in DOMAIN store |->
        IF sid \in expired_sessions(store, t) THEN NoSession ELSE store[sid]]

\* get_or_create_session: the id it returns; uuid is what uuid.uuid4() gives
session_id_for(store, session_id, uuid) ==
    IF session_id # NoSessionId /\ session_id # "" /\ store[session_id] # NoSession
    THEN session_id
    ELSE IF session_id # NoSessionId /\ session_id # "" THEN session_id ELSE uuid

\* mutant of get_or_create_session: the session is created anew even when
\* the id names an existing one
get_or_create_session_anew(store, session_id, uuid, t) ==
    [store EXCEPT ![session_id_for(store, session_id, uuid)] =
        [created_at |-> t, messages |-> <<>>]]

\* get_or_create_session: the store afterwards
get_or_create_session(store, session_id, uuid, t) ==
    IF session_id # NoSessionId /\ session_id # "" /\ store[session_id] # NoSession
    THEN store
    ELSE [store EXCEPT ![session_id_for(store, session_id, uuid)] =
              [created_at |-> t, messages |-> <<>>]]

\* add_exchange: appends the pair if the session is (still) in the store
add_exchange(store, session_id, question, answer) ==
    IF store[session_id] # NoSession
    THEN [store EXCEPT ![session_id].messages = Append(@, <<question, answer>>)]
    ELSE store

Min(a, b) == IF a < b THEN a ELSE b

\* answer.split('.')[0]
RECURSIVE FirstSentence(_)
FirstSentence(answer) ==
    IF answer = <<>> \/ Head(answer) = "." THEN <<>>
    ELSE <<Head(answer)>> \o FirstSentence(Tail(answer))

max_pairs == 10

\* ConversationHistory.get_history: list(self.messages)[-max_pairs:]
get_history(messages) ==
    LET first == IF Len(messages) > max_pairs THEN Len(messages) - max_pairs + 1 ELSE 1
    IN  SubSeq(messages, first, Len(messages))

\* the three lines format_for_prompt writes for the exchange of number idx
ExchangeLines(idx, exchange) ==
    << <<"\n[Exchange ", idx, "]">>,
       <<"User: ", exchange[1]>>,
       <<"Assistant: ">> \o FirstSentence(exchange[2]) >>

RECURSIVE ExchangesLines(_, _)
ExchangesLines(history, idx) ==
    IF idx > Len(history) THEN <<>>
    ELSE ExchangeLines(idx, history[idx]) \o ExchangesLines(history, idx + 1)

ContextRules ==
    << <<"\n=== CONTEXT RULES ===">>,
       <<"When the user asks follow-up questions:">>,
       <<"- If they change ONE aspect (e.g., 'what about 2023'), KEEP all other filters from previous questions">>,
       <<"- If they add a filter (e.g., 'but only Toyota'), COMBINE it with filters from previous questions">>,
       <<"- Example: Previous='Toyota sales in 2022', Current='what about 2023' -> Use: brand='Toyota' AND year=2023">>,
       <<"=== END CONTEXT ===\n">> >>

\* mutant of format_for_prompt: the oldest max_pairs exchanges are rendered
format_for_prompt_oldest(messages) ==
    IF messages = <<>> THEN <<>>
    ELSE << <<"=== PREVIOUS CONVERSATION CONTEXT ===">> >>
         \o ExchangesLines(SubSeq(messages, 1, Min(Len(messages), max_pairs)), 1)
         \o ContextRules

\* ConversationHistory.format_for_prompt: the lines it joins with "\n"; no
\* line stands for the empty string
format_for_prompt(messages) ==
    IF get_history(messages) = <<>> THEN <<>>
    ELSE << <<"=== PREVIOUS CONVERSATION CONTEXT ===">> >>
         \o ExchangesLines(get_history(messages), 1)
         \o ContextRules

\* get_history_for_prompt
get_history_for_prompt(store, session_id) ==
    IF store[session_id] = NoSession THEN <<>>
    ELSE format_for_prompt(store[session_id].messages)

(***************************************************************************)
(* run_agent: exceptions, the SQL pipeline, the RAG pipeline.              *)
(* A text is a sequence of strings: characters where the code looks into   *)
(* the text, whole literals elsewhere; an f-string is a concatenation.     *)
(***************************************************************************)
NoneValue == <<"<None>">>
NoExc == [site |-> "-", type |-> <<>>, message |-> <<>>]

\* exceptions the language service raises (an openai error, and one whose
\* type and text name no service), and those of the stores
LlmExceptions ==
    { [type |-> <<"O","p","e","n","A","I","E","r","r","o","r">>, message |-> <<"5","0","3">>],
      [type |-> <<"K","e","y","E","r","r","o","r">>, message |-> <<"i","d">>] }
DbException ==
    [type |-> <<"O","p","e","r","a","t","i","o","n","a","l","E","r","r","o","r">>,
     message |-> <<"n","o"," ","s","u","c","h"," ","t","a","b","l","e",":"," ","T">>]
FileNotFound ==
    [type |-> <<"F","i","l","e","N","o","t","F","o","u","n","d","E","r","r","o","r">>,
     message |-> <<"/","d","a","t","a","/","x"," ","n","o","t"," ","f","o","u","n","d">>]
Raised(site, e) == [site |-> site, type |-> e.type, message |-> e.message]

\* what an awaited call gives: a value, or an exception
Returns(v) == [ok |-> TRUE, value |-> v, exc |-> NoExc]
Raises(site, e) == [ok |-> FALSE, value |-> <<>>, exc |-> Raised(site, e)]

\* the code-fence stripping of _run_sql_pipeline: str.strip of backquotes
\* and newlines, then the text before the first newline-and-fence
\* the backquote character (which a string of this language cannot hold)
Backquote == "bq"

RECURSIVE StripFenceChars(_)
StripFenceChars(g) ==
    IF g # <<>> /\ Head(g) \in {Backquote, "\n"} THEN StripFenceChars(Tail(g))
    ELSE IF g # <<>> /\ g[Len(g)] \in {Backquote, "\n"}
         THEN StripFenceChars(SubSeq(g, 1, Len(g) - 1))
         ELSE g

Fence == <<Backquote, Backquote, Backquote>>

strip_code_fence(reply) ==
    LET stripped == Strip(reply)
        unfenced == IF StartsWith(stripped, Fence) THEN StripFenceChars(stripped)
                    ELSE stripped
        closing == <<"\n">> \o Fence
    IN  IF Contains(unfenced, closing)
        THEN SubSeq(unfenced, 1,
                 (CHOOSE i \in 1..Len(unfenced) :
                     /\ MatchAt(unfenced, closing, i)
                     /\ \A k \in 1..(i - 1) : ~MatchAt(unfenced, closing, k)) - 1)
        ELSE unfenced


ValidationFailed(validation_error) ==
    <<"SQL query validation failed: ">> \o validation_error
ExecutionFailed(exc) == <<"SQL execution failed: ">> \o exc.message

\* the locals of one run of _run_sql_pipeline; pc is the await it is
\* suspended at ("created": scheduled by gather and not yet started).
\* History: content, the reply of the generation call, db_runs, the queries
\* db.run was called with, and db_exc, the exception db.run raised
NoSqlRun ==
    [pc |-> "off", question |-> "", content |-> NoneValue, generated_sql |-> NoneValue,
     validated |-> NoValidation, rows_repr |-> NoneValue, tool_trace |-> <<>>,
     db_runs |-> <<>>, db_exc |-> NoExc, output |-> NoneValue, exc |-> NoExc]

\* _run_sql_pipeline up to its first await: get_sql_database(), then the
\* schema read on a worker thread
sql_pipeline_start(question, db) ==
    IF db.ok
    THEN [NoSqlRun EXCEPT !.pc = "schema", !.question = question]
    ELSE [NoSqlRun EXCEPT !.pc = "failed", !.question = question, !.exc = db.exc]

\* the schema read returns: the generation call is made
sql_schema_read(run, schema) ==
    IF schema.ok THEN [run EXCEPT !.pc = "generation"]
    ELSE [run EXCEPT !.pc = "failed", !.exc = schema.exc]

\* mutant of sql_generated: the query is executed whatever the validator says
sql_generated_unchecked(run, reply) ==
    IF ~reply.ok THEN [run EXCEPT !.pc = "failed", !.exc = reply.exc]
    ELSE LET generated_sql == strip_code_fence(reply.value)
             v == validate_sql_query(generated_sql)
         IN  [run EXCEPT
                 !.content = reply.value,
                 !.generated_sql = generated_sql,
                 !.validated = v,
                 !.tool_trace = <<<<"Route selected: ", SQL_ROUTE>>,
                                 <<"Generated SQL:\n">> \o generated_sql>>,
                 !.db_runs = Append(@, generated_sql),
                 !.rows_repr = <<>>,
                 !.pc = "execution"]

\* the generation call returns: fence stripping, validation, and either the
\* validation failure as the result or db.run on a worker thread
sql_generated(run, reply) ==
    IF ~reply.ok THEN [run EXCEPT !.pc = "failed", !.exc = reply.exc]
    ELSE LET generated_sql == strip_code_fence(reply.value)
             v == validate_sql_query(generated_sql)
             trace == <<<<"Route selected: ", SQL_ROUTE>>,
                        <<"Generated SQL:\n">> \o generated_sql>>
         IN  IF ~v.is_valid
             THEN [run EXCEPT
                     !.content = reply.value,
                     !.generated_sql = generated_sql,
                     !.validated = v,
                     !.tool_trace = Append(trace, ValidationFailed(v.error)),
                     !.rows_repr = ValidationFailed(v.error),
                     !.pc = "synthesis"]
             ELSE [run EXCEPT
                     !.content = reply.value,
                     !.generated_sql = generated_sql,
                     !.validated = v,
                     !.tool_trace = trace,
                     !.db_runs = Append(@, generated_sql),
                     !.rows_repr = <<>>,
                     !.pc = "execution"]

\* mutant of sql_executed: an exception of db.run leaves the pipeline
sql_executed_raising(run, rows) ==
    IF rows.ok
    THEN [run EXCEPT
            !.rows_repr = rows.value,
            !.tool_trace = Append(@, <<"SQL execution output: ">>
                                        \o SubSeq(rows.value, 1, Min(Len(rows.value), 200))),
            !.pc = "synthesis"]
    ELSE [run EXCEPT !.pc = "failed", !.exc = rows.exc, !.db_exc = rows.exc]

\* db.run returns or raises: the rows, or the error message, become the
\* result; the synthesis call is made
sql_executed(run, rows) ==
    IF rows.ok
    THEN [run EXCEPT
            !.rows_repr = rows.value,
            !.tool_trace = Append(@, <<"SQL execution output: ">>
                                        \o SubSeq(rows.value, 1, Min(Len(rows.value), 200))),
            !.pc = "synthesis"]
    ELSE [run EXCEPT
            !.db_exc = rows.exc,
            !.rows_repr = ExecutionFailed(rows.exc),
            !.tool_trace = Append(@, ExecutionFailed(rows.exc)),
            !.pc = "synthesis"]

\* the synthesis call returns: the pipeline returns its result
sql_synthesized(run, answer) ==
    IF answer.ok THEN [run EXCEPT !.pc = "done", !.output = Strip(answer.value)]
    ELSE [run EXCEPT !.pc = "failed", !.exc = answer.exc]

\* mutant of sql_result: a query the validator rejected is left out
sql_result_of_valid_query(run) ==
    [output |-> run.output, route |-> SQL_ROUTE,
     sql_query |-> IF run.validated.is_valid THEN run.generated_sql ELSE NoneValue,
     citations |-> <<>>, tool_trace |-> run.tool_trace]

\* the result dict of _run_sql_pipeline
sql_result(run) ==
    [output |-> run.output, route |-> SQL_ROUTE, sql_query |-> run.generated_sql,
     citations |-> <<>>, tool_trace |-> run.tool_trace]

(***************************************************************************)
(* The RAG pipeline.                                                       *)
(***************************************************************************)
\* mutant of sanitize_document_source: warranty and policy are tested before
\* manual and the model names
sanitize_document_source_policy_first(source) ==
    LET source_lower == Lower(source)
        has(w) == Contains(source_lower, w)
    IN  IF has(<<"c","o","n","t","r","a","c","t">>) THEN <<"Contract Document">>
        ELSE IF has(<<"w","a","r","r","a","n","t","y">>) \/ has(<<"p","o","l","i","c","y">>)
             THEN <<"Policy Document">>
        ELSE IF \/ has(<<"m","a","n","u","a","l">>)
                \/ has(<<"r","a","v","4">>)
                \/ has(<<"y","a","r","i","s">>)
             THEN <<"Manual Document">>
        ELSE IF has(<<"a","p","p","e","n","d","i","x">>) THEN <<"Policy Appendix">>
        ELSE <<"Document">>

\* _sanitize_document_source: the generic label for a raw source
sanitize_document_source(source) ==
    LET source_lower == Lower(source)
        has(w) == Contains(source_lower, w)
    IN  IF has(<<"c","o","n","t","r","a","c","t">>) THEN <<"Contract Document">>
        ELSE IF \/ has(<<"m","a","n","u","a","l">>)
                \/ has(<<"r","a","v","4">>)
                \/ has(<<"y","a","r","i","s">>)
             THEN <<"Manual Document">>
        ELSE IF has(<<"w","a","r","r","a","n","t","y">>) \/ has(<<"p","o","l","i","c","y">>)
             THEN <<"Policy Document">>
        ELSE IF has(<<"a","p","p","e","n","d","i","x">>) THEN <<"Policy Appendix">>
        ELSE <<"Document">>

\* _build_citations; a doc is [source, page, page_content], source <<>> when
\* the metadata names none
build_citations(docs) ==
    [i \in 1..Len(docs) |->
        [source_document |-> IF docs[i].source # <<>>
                             THEN sanitize_document_source(docs[i].source)
                             ELSE <<"Document">>,
         page |-> docs[i].page,
         content |-> docs[i].page_content]]

\* _format_docs_for_prompt: one section per doc (label, page, passage); the
\* empty sequence stands for the empty string
format_docs_for_prompt(docs) ==
    [i \in 1..Len(docs) |->
        <<sanitize_document_source(
              IF docs[i].source # <<>> THEN docs[i].source ELSE <<"u","n","k","n","o","w","n">>),
          docs[i].page, docs[i].page_content>>]

\* json.dumps(citations): the fields of the citations, in order
RECURSIVE citations_json(_)
citations_json(citations) ==
    IF citations = <<>> THEN <<>>
    ELSE Head(citations).source_document \o <<Head(citations).page>>
            \o Head(citations).content \o citations_json(Tail(citations))

NoRagRun ==
    [pc |-> "off", question |-> "", citations |-> <<>>, context |-> <<>>,
     tool_trace |-> <<>>, output |-> NoneValue, exc |-> NoExc]

\* _run_rag_pipeline up to its first await: load_vector_store(), then the
\* similarity search on a worker thread
rag_pipeline_start(question, store) ==
    IF store.ok
    THEN [NoRagRun EXCEPT !.pc = "search", !.question = question]
    ELSE [NoRagRun EXCEPT !.pc = "failed", !.question = question, !.exc = store.exc]

\* the similarity search returns: citations, context, the synthesis call
rag_searched(run, docs) ==
    IF docs.ok
    THEN [run EXCEPT
            !.citations = build_citations(docs.value),
            !.context = format_docs_for_prompt(docs.value),
            !.pc = "synthesis"]
    ELSE [run EXCEPT !.pc = "failed", !.exc = docs.exc]

\* the synthesis call returns: the pipeline returns its result
rag_synthesized(run, answer) ==
    IF answer.ok
    THEN [run EXCEPT
            !.pc = "done",
            !.output = Strip(answer.value),
            !.tool_trace =
                << <<"Route selected: ", RAG_ROUTE>>,
                   <<"Tool: knowledge_base_search | input: ", run.question>>,
                   <<"Output: ">> \o citations_json(run.citations) >>]
    ELSE [run EXCEPT !.pc = "failed", !.exc = answer.exc]

\* the result dict of _run_rag_pipeline
rag_result(run) ==
    [output |-> run.output, route |-> RAG_ROUTE, sql_query |-> NoneValue,
     citations |-> run.citations, tool_trace |-> run.tool_trace]

(***************************************************************************)
(* Citation harness: a passage with some source is drawn, _build_citations *)
(* is called on it.                                                        *)
(***************************************************************************)
\* pieces the source of a passage is put together from: directories,
\* names in either case, extensions
SourcePieces ==
    { <<"d","a","t","a","/">>, <<".","p","d","f">>, <<"_">>,
      <<"C","o","n","t","r","a","c","t">>, <<"M","A","N","U","A","L">>,
      <<"R","A","V","4">>, <<"Y","a","r","i","s">>,
      <<"W","a","r","r","a","n","t","y">>, <<"p","o","l","i","c","y">>,
      <<"A","p","p","e","n","d","i","x">>, <<"T","o","y","o","t","a">> }

NoCitation == [source_document |-> <<>>, page |-> "None", content |-> <<>>]

CiteIdle ==
    /\ doc_source = <<>>
    /\ cpc = "off"
    /\ citation = NoCitation

\* the empty source stands for metadata that names none
CiteInput ==
    /\ doc_source \in Texts(SourcePieces, MaxSourcePieces)
    /\ cpc = "input"
    /\ citation = NoCitation

BuildCitations ==
    /\ cpc = "input"
    /\ citation' = build_citations(<< [source |-> doc_source, page |-> "3",
                                       page_content |-> <<"five years">>] >>)[1]
    /\ cpc' = "built"
    /\ UNCHANGED <<doc_source, sql_query, vpc, validation, content, structured,
                   documentary, rpc, route, serviceVars, limiterVars>>

NextCite == BuildCitations

(***************************************************************************)
(* The hybrid pipeline and run_agent.                                      *)
(***************************************************************************)
\* _split_hybrid_question after the split call returned: a reply is
\* [json, sql_question, rag_question], json being "object" (a JSON object,
\* its two values as str() gives them, "" for a missing key), "invalid"
\* (json.loads raises ValueError) or "other" (JSON that is no object:
\* payload.get raises AttributeError, which the except clause does not name)
AttributeError ==
    [type |-> <<"A","t","t","r","i","b","u","t","e","E","r","r","o","r">>,
     message |-> <<"g","e","t">>]

split_hybrid_question(reply) ==
    IF ~reply.ok THEN reply
    ELSE IF reply.value.json = "invalid" THEN Returns(<<"", "">>)
    ELSE IF reply.value.json = "other" THEN Raises("split_parse", AttributeError)
    ELSE Returns(<<reply.value.sql_question, reply.value.rag_question>>)

\* mutant of hybrid_result: the trace of the RAG leg is put before that of
\* the SQL leg
hybrid_result_rag_first(answer, sql_question, rag_question, sql_res, rag_res) ==
    [output |-> Strip(answer), route |-> HYBRID_ROUTE,
     sql_query |-> sql_res.sql_query, citations |-> rag_res.citations,
     tool_trace |->
        << <<"Router decision: ", "HYBRID">>,
           <<"Hybrid split -> SQL question: ", sql_question>>,
           <<"Hybrid split -> RAG question: ", rag_question>> >>
        \o rag_res.tool_trace \o sql_res.tool_trace
        \o << <<"Hybrid synthesis completed">> >>]

\* the result dict of _run_hybrid_pipeline
hybrid_result(answer, sql_question, rag_question, sql_res, rag_res) ==
    [output |-> Strip(answer), route |-> HYBRID_ROUTE,
     sql_query |-> sql_res.sql_query, citations |-> rag_res.citations,
     tool_trace |->
        << <<"Router decision: ", "HYBRID">>,
           <<"Hybrid split -> SQL question: ", sql_question>>,
           <<"Hybrid split -> RAG question: ", rag_question>> >>
        \o sql_res.tool_trace \o rag_res.tool_trace
        \o << <<"Hybrid synthesis completed">> >>]

\* run_agent on the SQL and RAG routes: the router decision is put in front
\* of the trace of the pipeline's result
\* mutant of with_router_decision: the decision is put at the end of the trace
with_router_decision_last(result, decision) ==
    [result EXCEPT !.tool_trace = @ \o << <<"Router decision: ", decision>> >>]

with_router_decision(result, decision) ==
    [result EXCEPT !.tool_trace = << <<"Router decision: ", decision>> >> \o @]

insufficient_context_message == <<"I'm here to help with Toyota/Lexus analytics">>

\* run_agent when no route is decided
unknown_result ==
    [output |-> insufficient_context_message, route |-> "UNKNOWN",
     sql_query |-> NoneValue, citations |-> <<>>,
     tool_trace |-> << <<"Router decision: ", "INSUFFICIENT CONTEXT">> >>]

(***************************************************************************)
(* ask_question: the locals of one request, and its steps.                 *)
(***************************************************************************)
\* the questions asked, and their text
Questions ==
    {"Sales by year?", "warranty policy?", "sales and warranty?", "hello",
     "who is it from?"}
QuestionText(question) ==
    CASE question = "Sales by year?" -> <<"S","a","l","e","s"," ","b","y"," ","y","e","a","r","?">>
      [] question = "warranty policy?" -> <<"w","a","r","r","a","n","t","y"," ","p","o","l","i","c","y","?">>
      [] question = "sales and warranty?" -> <<"s","a","l","e","s"," ","a","n","d"," ","w","a","r","r","a","n","t","y","?">>
      [] question = "hello" -> <<"h","e","l","l","o">>
      [] question = "who is it from?" -> <<"w","h","o"," ","i","s"," ","i","t"," ","f","r","o","m","?">>

\* settings.sql_keywords and settings.doc_keywords
sql_keywords ==
    { <<"s","a","l","e","s">>,
      <<"r","e","v","e","n","u","e">>,
      <<"q","u","a","n","t","i","t","y">>,
      <<"c","o","u","n","t">>,
      <<"s","u","m">>,
      <<"a","v","e","r","a","g","e">>,
      <<"t","a","b","l","e">>,
      <<"q","u","e","r","y">>,
      <<"s","q","l">>,
      <<"f","a","c","t">>,
      <<"d","i","m">>,
      <<"m","o","n","t","h">>,
      <<"y","e","a","r">>,
      <<"c","o","u","n","t","r","y">>,
      <<"m","o","d","e","l">>,
      <<"a","n","a","l","y","t","i","c","s">>,
      <<"r","e","p","o","r","t">> }
doc_keywords ==
    { <<"m","a","n","u","a","l">>,
      <<"w","a","r","r","a","n","t","y">>,
      <<"c","o","n","t","r","a","c","t">>,
      <<"p","o","l","i","c","y">>,
      <<"a","p","p","e","n","d","i","x">>,
      <<"i","n","s","t","r","u","c","t","i","o","n","s">>,
      <<"p","r","o","c","e","d","u","r","e">> }

\* _looks_structured and _looks_documentary
looks_structured(question) ==
    LET lowered == Lower(QuestionText(question))
    IN  \/ \E word \in { <<"s","e","l","e","c","t">>, <<"f","r","o","m">>,
                          <<"w","h","e","r","e">>,
                          <<"g","r","o","u","p"," ","b","y">> } :
              ContainsWord(lowered, word)
        \/ \E keyword \in sql_keywords : Contains(lowered, keyword)
looks_documentary(question) ==
    LET lowered == Lower(QuestionText(question))
    IN  \E keyword \in doc_keywords : Contains(lowered, keyword)

enable_rate_limit == TRUE

NoInfo == [remaining_interactions |-> -1, daily_limit |-> -1, current_count |-> -1]
NoResponse ==
    [status |-> 0, detail |-> <<>>, answer |-> <<>>, sql_query |-> NoneValue,
     citations |-> <<>>, tool_trace |-> <<>>, session_id |-> NoSessionId,
     rate_limit_info |-> NoInfo]

\* pc is the await the request is suspended at: "classification", "split",
\* "sql" / "rag" (inside the pipeline of that route), "gather", "merge";
\* "idle" before the request arrives and "done" once it is answered
IdleRequest ==
    [pc |-> "idle", identifier |-> "", question |-> "", session_id |-> NoSessionId,
     payload_session_id |-> NoSessionId, snapshot |-> <<>>, overlapping |-> FALSE,
     conversation_history |-> <<>>, rate_limit_info |-> NoInfo, events |-> <<>>,
     route |-> "-", sql |-> NoSqlRun, rag |-> NoRagRun,
     sql_question |-> "", rag_question |-> "", gather_exc |-> NoExc,
     split_json |-> "-", failures |-> <<>>, finished |-> <<>>, result_route |-> "-",
     exc |-> NoExc,
     response |-> NoResponse]

\* _is_openai_api_error
is_openai_api_error(exc) ==
    LET exc_type_name == Lower(exc.type)
        exc_str == Lower(exc.message)
        openai == <<"o","p","e","n","a","i">>
    IN  \/ Contains(exc_type_name, openai)
        \/ Contains(exc_str, openai)
        \/ \E keyword \in { <<"c","o","n","n","e","c","t","i","o","n">>,
                            <<"t","i","m","e","o","u","t">>,
                            <<"r","a","t","e"," ","l","i","m","i","t">>,
                            <<"a","p","i"," ","k","e","y">>,
                            <<"a","u","t","h","e","n","t","i","c","a","t","i","o","n">> } :
              Contains(exc_str, keyword)

\* mutant of ask_failed: the text of the exception is the detail of a 500
ask_failed_telling(q, exc) ==
    [q EXCEPT
        !.pc = "done",
        !.exc = exc,
        !.response = [NoResponse EXCEPT !.status = 500, !.detail = exc.message]]

\* ask_question when run_agent raises: one of the two fixed answers
ask_failed(q, exc) ==
    [q EXCEPT
        !.pc = "done",
        !.exc = exc,
        !.response =
            [NoResponse EXCEPT
                !.status = IF is_openai_api_error(exc) THEN 503 ELSE 500,
                !.detail = IF is_openai_api_error(exc)
                           THEN <<"External service temporarily unavailable. Please try again later.">>
                           ELSE <<"An internal error occurred while processing your request.">>]]

\* ask_question when run_agent returns: the exchange is stored (see Settle)
\* and the response built
ask_answered(q, result) ==
    [q EXCEPT
        !.pc = "done",
        !.result_route = result.route,
        !.events = Append(@, "add_exchange"),
        !.response =
            [status |-> 200, detail |-> <<>>, answer |-> result.output,
             sql_query |-> result.sql_query, citations |-> result.citations,
             tool_trace |-> result.tool_trace, session_id |-> q.session_id,
             rate_limit_info |-> q.rate_limit_info]]

\* mutant of ask_quota: the interaction is recorded before the check is made
ask_quota_recording_first(table, identifier, t, clock) ==
    LET recorded == record_interaction(table, identifier, DateOf(clock.record),
                                       clock.record)
        check == check_rate_limit(recorded, identifier, daily_interaction_limit + 1,
                                  DateOf(clock.record))
    IN  IF check.raised
        THEN [exc |-> check, table |-> recorded, info |-> NoInfo,
              events |-> <<"record", "check">>]
        ELSE [exc |-> NoException, table |-> recorded,
              info |-> [remaining_interactions |->
                            get_remaining_interactions(recorded, identifier,
                                                       daily_interaction_limit,
                                                       DateOf(clock.remaining)),
                        daily_limit |-> daily_interaction_limit,
                        current_count |->
                            get_daily_interaction_count(recorded, identifier,
                                                        DateOf(clock.record))],
              events |-> <<"record", "check">>]

\* the quota part of ask_question: check_rate_limit, and when it passes
\* record_interaction and the rate limit info; gives the exception of the
\* check, the table afterwards and the info. Each of the three calls reads
\* date.today() for itself: the check at t, the record at clock.record and
\* get_remaining_interactions at clock.remaining
ask_quota(table, identifier, t, clock) ==
    LET check == check_rate_limit(table, identifier, daily_interaction_limit, DateOf(t))
        recorded == record_interaction(table, identifier, DateOf(clock.record),
                                       clock.record)
    IN  IF ~enable_rate_limit
        THEN [exc |-> NoException, table |-> table, info |-> NoInfo, events |-> <<>>]
        ELSE IF check.raised
        THEN [exc |-> check, table |-> table, info |-> NoInfo, events |-> <<"check">>]
        ELSE [exc |-> NoException, table |-> recorded,
              info |-> [remaining_interactions |->
                            get_remaining_interactions(recorded, identifier,
                                                       daily_interaction_limit,
                                                       DateOf(clock.remaining)),
                        daily_limit |-> daily_interaction_limit,
                        current_count |->
                            get_daily_interaction_count(recorded, identifier,
                                                        DateOf(clock.record))],
              events |-> <<"check", "record">>]

\* history: the exceptions raised in the request, in the order they were
\* raised (those the code recovers from are not among them)
noting(q, outcome) ==
    IF outcome.ok THEN q ELSE [q EXCEPT !.failures = Append(@, outcome.exc)]

\* a leg of the request has made a step: what run_agent and ask_question do
\* with it. On the SQL and RAG routes the pipeline is awaited directly, so
\* its result or exception goes on to ask_question in the same step; under
\* gather the first exception of a leg becomes the exception of the gather
after_leg(q, run, result) ==
    LET ended == IF run.pc \in {"done", "failed"}
                 THEN [q EXCEPT !.finished = Append(@, result.route)]
                 ELSE q
        noted == IF run.pc = "failed"
                 THEN [ended EXCEPT !.failures = Append(@, run.exc)]
                 ELSE ended
    IN  IF q.pc \in {"sql", "rag"}
        THEN IF run.pc = "done"
             THEN ask_answered(noted, with_router_decision(result, q.route))
             ELSE IF run.pc = "failed" THEN ask_failed(noted, run.exc)
             ELSE noted
        ELSE IF q.pc = "gather" /\ run.pc = "failed" /\ q.gather_exc = NoExc
             THEN [noted EXCEPT !.gather_exc = run.exc]
             ELSE noted

(***************************************************************************)
(* What the services outside the program give: the replies of the language *)
(* service, the rows of the relational store, the passages of the vector   *)
(* store, or an exception.                                                 *)
(***************************************************************************)
LlmFailures(site) == {Raises(site, e) : e \in LlmExceptions}

RouterContents ==
    { <<"S","Q","L">>, <<"r","a","g">>, <<"B","O","T","H">>, <<"N","O","N","E">>,
      <<"m","a","y","b","e">>, <<>> }
SqlReplies ==
    { SELECT \o <<" ","1">>,
      <<"D","R","O","P">> \o TABLE_x,
      Fence \o <<"\n">> \o SELECT \o <<" ","1","\n">> \o Fence,
      Fence \o <<"s","q","l","\n">> \o SELECT \o <<" ","1","\n">> \o Fence }
Rows == { <<"[","(","1",",",")","]">>, <<>> }
Answers == { <<"U","p",".","O","k">>, <<" ","N","o"," ">> }
Docs ==
    { <<>>,
      << [source |-> <<"d","a","t","a","/","W","a","r","r","a","n","t","y",".","p","d","f">>,
          page |-> "3", page_content |-> <<"five years">>] >>,
      << [source |-> <<>>, page |-> "None", page_content |-> <<"oil">>],
         [source |-> <<"R","A","V","4",".","p","d","f">>,
          page |-> "7", page_content |-> <<"tyres">>] >> }
SplitReplies ==
    { [json |-> "object", sql_question |-> "Sales by year?",
       rag_question |-> "warranty policy?"],
      [json |-> "object", sql_question |-> "", rag_question |-> ""],
      [json |-> "invalid", sql_question |-> "", rag_question |-> ""],
      [json |-> "other", sql_question |-> "", rag_question |-> ""] }

\* everything the services can give
FullEnv ==
    [asks |-> MaxAgentAsks,
     lag |-> 0,
     identifiers |-> {"ip1"},
     session_ids |-> {NoSessionId},
     questions |-> Questions,
     classification |-> {Returns(c) : c \in RouterContents} \cup LlmFailures("classification"),
     db |-> {Returns(<<>>), Raises("get_sql_database", FileNotFound)},
     schema |-> {Returns(<<>>), Raises("schema", DbException)},
     generation |-> {Returns(g) : g \in SqlReplies} \cup LlmFailures("generation"),
     execution |-> {Returns(x) : x \in Rows} \cup {Raises("execution", DbException)},
     synthesis |-> {Returns(a) : a \in Answers} \cup LlmFailures("synthesis"),
     store |-> {Returns(<<>>), Raises("load_vector_store", FileNotFound)},
     search |-> {Returns(d) : d \in Docs} \cup {Raises("search", DbException)},
     split |-> {Returns(x) : x \in SplitReplies} \cup LlmFailures("split")]

\* fewer of them, for the runs with several requests at once
SmallEnv ==
    [asks |-> MaxAsks,
     lag |-> MaxLag,
     identifiers |-> {"ip1"},
     session_ids |-> ClientSessionIds,
     questions |-> {"sales and warranty?"},
     classification |-> {Returns(<<"S","Q","L">>), Returns(<<"r","a","g">>),
                         Returns(<<"N","O","N","E">>),
                         Raises("classification", CHOOSE e \in LlmExceptions : TRUE)},
     db |-> {Returns(<<>>)},
     schema |-> {Returns(<<>>)},
     generation |-> {Returns(SELECT \o <<" ","1">>)},
     execution |-> {Returns(<<"[","(","1",",",")","]">>)},
     synthesis |-> {Returns(<<"U","p",".","O","k">>)},
     store |-> {Returns(<<>>)},
     search |-> {Returns(<<>>)}]

(***************************************************************************)
(* The steps of the service. One step is what the event loop runs between  *)
(* two suspensions: from a request's arrival, or from the return of an     *)
(* awaited call, to the next await or to the response.                     *)
(***************************************************************************)

\* the readings of the clock by the record and by get_remaining_interactions
\* of a request that arrives at t, the clock advancing by at most lag meanwhile
Clocks(t, lag) ==
    {clock \in [record : t..Min(t + lag, MaxTime), remaining : t..Min(t + lag, MaxTime)] :
        clock.record <= clock.remaining}

\* request r takes the value q; if that answers it, the exchange is added to
\* the conversation store (ask_question after run_agent returned)
Settle(r, q) ==
    /\ reqs' = [reqs EXCEPT ![r] = q]
    /\ conversation_store' =
          IF reqs[r].pc # "done" /\ q.pc = "done" /\ q.response.status = 200
          THEN add_exchange(conversation_store, q.session_id, q.question,
                            q.response.answer)
          ELSE conversation_store
    /\ UNCHANGED <<now, rate_limit, accepted, asked, resets, pureVars, limiterVars>>

\* mutant of AskQuestion: the request is suspended between its check and its
\* record (pc "checked"), and resumed by a second step
AskQuestion_suspended(r, identifier, session_id, question, uuid, clock) ==
    \/ /\ reqs[r].pc = "idle"
       /\ LET check == check_rate_limit(rate_limit, identifier,
                                        daily_interaction_limit, Today)
              q == [IdleRequest EXCEPT !.identifier = identifier,
                                       !.question = question,
                                       !.payload_session_id = session_id,
                                       !.session_id = session_id,
                                       !.events = <<"check">>]
          IN  reqs' = [reqs EXCEPT ![r] =
                  IF check.raised
                  THEN [q EXCEPT !.pc = "done",
                                 !.response = [NoResponse EXCEPT !.status = 429]]
                  ELSE [q EXCEPT !.pc = "checked"]]
       /\ UNCHANGED <<now, rate_limit, conversation_store, accepted, asked, resets,
                      pureVars, limiterVars>>
    \/ /\ reqs[r].pc = "checked"
       /\ identifier = reqs[r].identifier
       /\ rate_limit' = record_interaction(rate_limit, identifier, Today, now)
       /\ accepted' = [accepted EXCEPT ![identifier, Today] = @ + 1]
       /\ asked' = asked + 1
       /\ reqs' = [reqs EXCEPT ![r] =
              [@ EXCEPT !.pc = "classification",
                        !.events = <<"check", "record", "run_agent">>]]
       /\ UNCHANGED <<now, conversation_store, resets, pureVars, limiterVars>>

\* request q is suspended in run_agent under the session sid
InFlightUnder(q, sid) == q.pc \notin {"idle", "done"} /\ q.session_id = sid

\* mutant of AskQuestion: the quota is checked before the sweep and the
\* session lookup, which a rejected request does not reach
AskQuestion_quota_first(r, identifier, session_id, question, uuid, clock) ==
    /\ reqs[r].pc = "idle"
    /\ LET swept == cleanup_expired_sessions(conversation_store, now)
           sid == session_id_for(swept, session_id, uuid)
           store == get_or_create_session(swept, session_id, uuid, now)
           quota == ask_quota(rate_limit, identifier, now, clock)
           q == [IdleRequest EXCEPT
                    !.identifier = identifier,
                    !.question = question,
                    !.payload_session_id = session_id,
                    !.snapshot = store[sid].messages,
                    !.overlapping = \E o \in Reqs : InFlightUnder(reqs[o], sid),
                    !.session_id = sid,
                    !.conversation_history = get_history_for_prompt(store, sid),
                    !.rate_limit_info = quota.info,
                    !.events = quota.events]
       IN  /\ session_id = NoSessionId => swept[uuid] = NoSession
           /\ rate_limit' = quota.table
           /\ IF quota.exc.raised
              THEN /\ reqs' = [reqs EXCEPT ![r] =
                        [q EXCEPT !.pc = "done",
                                  !.response = [NoResponse EXCEPT !.status = 429]]]
                   /\ conversation_store' = conversation_store
                   /\ accepted' = accepted
                   /\ now' = now
              ELSE /\ reqs' = [reqs EXCEPT ![r] =
                        [q EXCEPT !.pc = "classification",
                                  !.events = Append(@, "run_agent")]]
                   /\ conversation_store' = store
                   /\ accepted' = [accepted EXCEPT
                                      ![identifier, DateOf(clock.record)] = @ + 1]
                   /\ now' = clock.remaining
    /\ asked' = asked + 1
    /\ UNCHANGED <<resets, pureVars, limiterVars>>

\* mutant of AskQuestion: the session is looked up before the sweep
AskQuestion_lookup_first(r, identifier, session_id, question, uuid, clock) ==
    /\ reqs[r].pc = "idle"
    /\ LET sid == session_id_for(conversation_store, session_id, uuid)
           store == cleanup_expired_sessions(
                        get_or_create_session(conversation_store, session_id, uuid, now),
                        now)
           quota == ask_quota(rate_limit, identifier, now, clock)
           q == [IdleRequest EXCEPT
                    !.identifier = identifier,
                    !.question = question,
                    !.payload_session_id = session_id,
                    !.snapshot = store[sid].messages,
                    !.overlapping = \E o \in Reqs : InFlightUnder(reqs[o], sid),
                    !.session_id = sid,
                    !.conversation_history = get_history_for_prompt(store, sid),
                    !.rate_limit_info = quota.info,
                    !.events = quota.events]
       IN  /\ session_id = NoSessionId => conversation_store[uuid] = NoSession
           /\ conversation_store' = store
           /\ rate_limit' = quota.table
           /\ IF quota.exc.raised
              THEN /\ reqs' = [reqs EXCEPT ![r] =
                        [q EXCEPT !.pc = "done",
                                  !.response = [NoResponse EXCEPT !.status = 429]]]
                   /\ accepted' = accepted
                   /\ now' = now
              ELSE /\ reqs' = [reqs EXCEPT ![r] =
                        [q EXCEPT !.pc = "classification",
                                  !.events = Append(@, "run_agent")]]
                   /\ accepted' = [accepted EXCEPT
                                      ![identifier, DateOf(clock.record)] = @ + 1]
                   /\ now' = clock.remaining
    /\ asked' = asked + 1
    /\ UNCHANGED <<resets, pureVars, limiterVars>>

\* POST /ask arrives: ask_question down to its await of the classification
\* call inside run_agent / _decide_route, or to the 429.
\* History: payload_session_id, the session_id of the payload; snapshot,
\* the messages of the session when the history was read; overlapping,
\* whether another request was suspended under the session at the arrival
AskQuestion(r, identifier, session_id, question, uuid, clock) ==
    /\ reqs[r].pc = "idle"
    /\ LET swept == cleanup_expired_sessions(conversation_store, now)
           sid == session_id_for(swept, session_id, uuid)
           store == get_or_create_session(swept, session_id, uuid, now)
           quota == ask_quota(rate_limit, identifier, now, clock)
           q == [IdleRequest EXCEPT
                    !.identifier = identifier,
                    !.question = question,
                    !.payload_session_id = session_id,
                    !.snapshot = store[sid].messages,
                    !.overlapping = \E o \in Reqs : InFlightUnder(reqs[o], sid),
                    !.session_id = sid,
                    !.conversation_history = get_history_for_prompt(store, sid),
                    !.rate_limit_info = quota.info,
                    !.events = quota.events]
       IN  /\ session_id = NoSessionId => swept[uuid] = NoSession
           /\ conversation_store' = store
           /\ rate_limit' = quota.table
           /\ IF quota.exc.raised
              THEN /\ reqs' = [reqs EXCEPT ![r] =
                        [q EXCEPT
                            !.pc = "done",
                            !.response =
                                [NoResponse EXCEPT
                                    !.status = 429,
                                    !.detail = <<"Daily interaction limit exceeded: ",
                                                 quota.exc.current_count, "/",
                                                 quota.exc.limit,
                                                 ". Please try again tomorrow.">>]]]
                   /\ accepted' = accepted
                   /\ now' = now
              ELSE /\ reqs' = [reqs EXCEPT ![r] =
                        [q EXCEPT !.pc = "classification",
                                  !.events = Append(@, "run_agent")]]
                   /\ accepted' = [accepted EXCEPT
                                      ![identifier, DateOf(clock.record)] = @ + 1]
                   /\ now' = clock.remaining
    /\ asked' = asked + 1
    /\ UNCHANGED <<resets, pureVars, limiterVars>>

\* mutant of Classified's routing: a failed classification call is replaced
\* by the route the heuristics give
route_of_guessing(reply, question) ==
    decide_route(IF reply.ok THEN reply.value ELSE <<>>,
                 looks_structured(question), looks_documentary(question))

\* _decide_route once the classification call returned
route_of(reply, question) ==
    IF reply.ok
    THEN decide_route(reply.value, looks_structured(question), looks_documentary(question))
    ELSE "-"

\* mutant of Classified: with no route decided the RAG pipeline is run
Classified_none_searches(r, reply, db, store) ==
    /\ reqs[r].pc = "classification"
    /\ LET decided == route_of(reply, reqs[r].question)
           q == [noting(reqs[r], reply) EXCEPT !.route = decided]
           sql == sql_pipeline_start(q.question, db)
           rag == rag_pipeline_start(q.question, store)
       IN  Settle(r,
              IF decided = "-" THEN ask_failed(q, reply.exc)
              ELSE IF decided = SQL_ROUTE
              THEN after_leg([q EXCEPT !.pc = "sql", !.sql = sql], sql, sql_result(sql))
              ELSE IF decided = HYBRID_ROUTE THEN [q EXCEPT !.pc = "split"]
              ELSE after_leg([q EXCEPT !.pc = "rag", !.rag = rag], rag, rag_result(rag)))

\* the classification call returns or raises: _decide_route, then run_agent
\* down to the first await of the route it starts
Classified(r, reply, db, store) ==
    /\ reqs[r].pc = "classification"
    /\ LET decided == route_of(reply, reqs[r].question)
           q == [noting(reqs[r], reply) EXCEPT !.route = decided]
           sql == sql_pipeline_start(q.question, db)
           rag == rag_pipeline_start(q.question, store)
       IN  Settle(r,
              IF decided = "-" THEN ask_failed(q, reply.exc)
              ELSE IF decided = SQL_ROUTE
              THEN after_leg([q EXCEPT !.pc = "sql", !.sql = sql], sql, sql_result(sql))
              ELSE IF decided = HYBRID_ROUTE THEN [q EXCEPT !.pc = "split"]
              ELSE IF decided = RAG_ROUTE
              THEN after_leg([q EXCEPT !.pc = "rag", !.rag = rag], rag, rag_result(rag))
              ELSE ask_answered(q, unknown_result))

\* the split call returns or raises: _split_hybrid_question, then
\* _run_hybrid_pipeline down to its await of the gather, which has scheduled
\* the two pipelines
SplitReplied(r, reply) ==
    /\ reqs[r].pc = "split"
    /\ LET split == split_hybrid_question(reply)
           q == [noting(reqs[r], split) EXCEPT
                    !.split_json = IF reply.ok THEN reply.value.json ELSE "-"]
           sql_question == IF split.value[1] # "" THEN split.value[1] ELSE q.question
           rag_question == IF split.value[2] # "" THEN split.value[2] ELSE q.question
       IN  Settle(r,
              IF ~split.ok THEN ask_failed(q, split.exc)
              ELSE [q EXCEPT
                      !.pc = "gather",
                      !.sql_question = sql_question,
                      !.rag_question = rag_question,
                      !.sql = [NoSqlRun EXCEPT !.pc = "created", !.question = sql_question],
                      !.rag = [NoRagRun EXCEPT !.pc = "created", !.question = rag_question]])

\* a step of the SQL pipeline of request r makes its run the value run
SqlStep(r, run) ==
    Settle(r, after_leg([reqs[r] EXCEPT !.sql = run], run, sql_result(run)))

\* the first step of the SQL leg the gather scheduled
SqlStart(r, db) ==
    /\ reqs[r].sql.pc = "created"
    /\ SqlStep(r, sql_pipeline_start(reqs[r].sql.question, db))

SqlSchema(r, schema) ==
    /\ reqs[r].sql.pc = "schema"
    /\ SqlStep(r, sql_schema_read(reqs[r].sql, schema))

SqlGeneration(r, reply) ==
    /\ reqs[r].sql.pc = "generation"
    /\ SqlStep(r, sql_generated(reqs[r].sql, reply))

SqlExecution(r, rows) ==
    /\ reqs[r].sql.pc = "execution"
    /\ SqlStep(r, sql_executed(reqs[r].sql, rows))

SqlSynthesis(r, answer) ==
    /\ reqs[r].sql.pc = "synthesis"
    /\ SqlStep(r, sql_synthesized(reqs[r].sql, answer))

\* a step of the RAG pipeline of request r makes its run the value run
RagStep(r, run) ==
    Settle(r, after_leg([reqs[r] EXCEPT !.rag = run], run, rag_result(run)))

\* the first step of the RAG leg the gather scheduled, after that of the SQL
\* leg (tasks start in the order they were created)
RagStart(r, store) ==
    /\ reqs[r].rag.pc = "created"
    /\ reqs[r].sql.pc # "created"
    /\ RagStep(r, rag_pipeline_start(reqs[r].rag.question, store))

RagSearch(r, docs) ==
    /\ reqs[r].rag.pc = "search"
    /\ RagStep(r, rag_searched(reqs[r].rag, docs))

RagSynthesis(r, answer) ==
    /\ reqs[r].rag.pc = "synthesis"
    /\ RagStep(r, rag_synthesized(reqs[r].rag, answer))

\* mutant of HybridJoin: the hybrid run goes on as soon as one leg has returned
HybridJoin_first_completed(r) ==
    /\ reqs[r].pc = "gather"
    /\ \/ reqs[r].gather_exc # NoExc
       \/ reqs[r].sql.pc = "done"
       \/ reqs[r].rag.pc = "done"
    /\ Settle(r, IF reqs[r].gather_exc # NoExc
                 THEN ask_failed(reqs[r], reqs[r].gather_exc)
                 ELSE [reqs[r] EXCEPT !.pc = "merge"])

\* the gather is done (both legs returned, or one raised) and
\* _run_hybrid_pipeline resumes: the exception goes on to ask_question, or
\* the hybrid synthesis call is made
\* (gather does not cancel the other leg, whose steps go on before and
\* after this one; the event loop may order them either way)
HybridJoin(r) ==
    /\ reqs[r].pc = "gather"
    /\ \/ reqs[r].gather_exc # NoExc
       \/ reqs[r].sql.pc = "done" /\ reqs[r].rag.pc = "done"
    /\ Settle(r, IF reqs[r].gather_exc # NoExc
                 THEN ask_failed(reqs[r], reqs[r].gather_exc)
                 ELSE [reqs[r] EXCEPT !.pc = "merge"])

\* the hybrid synthesis call returns or raises
Merged(r, answer) ==
    /\ reqs[r].pc = "merge"
    /\ LET q == noting(reqs[r], answer)
       IN  Settle(r,
              IF ~answer.ok THEN ask_failed(q, answer.exc)
              ELSE ask_answered(q,
                      hybrid_result(answer.value, q.sql_question, q.rag_question,
                                    sql_result(q.sql), rag_result(q.rag))))

\* the response has been sent and nothing of the request is left running
Recycle(r) ==
    /\ reqs[r].pc = "done"
    /\ reqs[r].sql.pc \in {"off", "done", "failed"}
    /\ reqs[r].rag.pc \in {"off", "done", "failed"}
    /\ reqs' = [reqs EXCEPT ![r] = IdleRequest]
    /\ UNCHANGED <<now, rate_limit, conversation_store, accepted, asked, resets,
                   pureVars, limiterVars>>

\* POST /admin/reset-rate-limit
ResetRateLimit(identifier) ==
    /\ resets < MaxResets
    /\ rate_limit' = reset_daily_count(rate_limit, identifier, Today)
    /\ resets' = resets + 1
    /\ UNCHANGED <<now, conversation_store, reqs, accepted, asked, pureVars, limiterVars>>

\* time passes
Tick ==
    /\ now < MaxTime
    /\ now' = now + 1
    /\ UNCHANGED <<rate_limit, conversation_store, reqs, accepted, asked, resets,
                   pureVars, limiterVars>>

EmptyTable == {}
NoCall == [op |-> "-", identifier |-> "", limit |-> 0, exc |-> NoException, value |-> 0]
NoSessionCall == [op |-> "-", session_id |-> "", value |-> 0, at |-> 0, flip |-> FALSE]
LimiterIdle ==
    /\ last_call = NoCall
    /\ session_call = NoSessionCall
    /\ records = [k \in Identifiers \X Dates |-> 0]
ServiceIdle ==
    /\ now = 0
    /\ rate_limit = EmptyTable
    /\ conversation_store = [sid \in SessionIds |-> NoSession]
    /\ reqs = [r \in Reqs |-> IdleRequest]
    /\ accepted = [k \in Identifiers \X Dates |-> 0]
    /\ asked = 0
    /\ resets = 0

Init == ValidateIdle /\ RouteIdle /\ CiteIdle /\ ServiceIdle /\ LimiterIdle

\* arrival, classification and departure of the requests R
AskSteps(E, R) ==
    \/ \E r \in R, identifier \in E.identifiers, session_id \in E.session_ids,
          question \in E.questions, uuid \in Uuids :
          \E clock \in Clocks(now, E.lag) :
            asked < E.asks /\ AskQuestion(r, identifier, session_id, question, uuid, clock)
    \/ \E r \in R, reply \in E.classification, db \in E.db, store \in E.store :
            Classified(r, reply, db, store)
    \/ \E r \in R : Recycle(r)

\* the awaits inside the two pipelines
PipelineSteps(E, R) ==
    \/ \E r \in R, schema \in E.schema : SqlSchema(r, schema)
    \/ \E r \in R, reply \in E.generation : SqlGeneration(r, reply)
    \/ \E r \in R, rows \in E.execution : SqlExecution(r, rows)
    \/ \E r \in R, answer \in E.synthesis : SqlSynthesis(r, answer)
    \/ \E r \in R, docs \in E.search : RagSearch(r, docs)
    \/ \E r \in R, answer \in E.synthesis : RagSynthesis(r, answer)

\* the awaits of _run_hybrid_pipeline and the start of its two legs
HybridSteps(E, R) ==
    \/ \E r \in R, reply \in E.split : SplitReplied(r, reply)
    \/ \E r \in R, db \in E.db : SqlStart(r, db)
    \/ \E r \in R, store \in E.store : RagStart(r, store)
    \/ \E r \in R : HybridJoin(r)
    \/ \E r \in R, answer \in E.synthesis : Merged(r, answer)

\* the two harnesses, the service at rest
InitValidate == ValidateInput /\ CiteIdle /\ ServiceIdle /\ LimiterIdle
SpecValidate == InitValidate /\ [][NextValidate]_vars
InitRoute == RouteInput /\ CiteIdle /\ ServiceIdle /\ LimiterIdle
SpecRoute == InitRoute /\ [][NextRoute]_vars
InitCite == CiteInput /\ ValidateIdle /\ RouteIdle /\ ServiceIdle /\ LimiterIdle
SpecCite == InitCite /\ [][NextCite]_vars

\* several requests at once on the routes the classifier names in SmallEnv,
\* the quota reset and the clock
Next ==
    \/ AskSteps(SmallEnv, Reqs)
    \/ PipelineSteps(SmallEnv, Reqs)
    \/ \E identifier \in {"ip1", "None"} : ResetRateLimit(identifier)
    \/ Tick
Spec == Init /\ [][Next]_vars

\* the requests of the clients of one conversation: with the id of the
\* session or with none, with two questions, on the routes that answer
\* without a pipeline, that run the document pipeline, or that fail
SessionEnv ==
    [SmallEnv EXCEPT
        !.session_ids = ClientSessionIds \cup {NoSessionId},
        !.questions = {"sales and warranty?", "warranty?"},
        !.classification = {Returns(<<"r","a","g">>), Returns(<<"N","O","N","E">>),
                            Raises("classification", CHOOSE e \in LlmExceptions : TRUE)}]
NextSession ==
    \/ AskSteps(SessionEnv, Reqs)
    \/ \E r \in Reqs, docs \in SessionEnv.search : RagSearch(r, docs)
    \/ \E r \in Reqs, answer \in SessionEnv.synthesis : RagSynthesis(r, answer)
    \/ Tick
SpecSession == Init /\ [][NextSession]_vars

\* one request at a time, on every route and with everything the services
\* can give
NextAgent ==
    \/ AskSteps(FullEnv, {1})
    \/ PipelineSteps(FullEnv, {1})
    \/ HybridSteps(FullEnv, {1})
SpecAgent == Init /\ [][NextAgent]_vars

(***************************************************************************)
(* The limiter called directly: check_rate_limit, record_interaction,      *)
(* get_remaining_interactions and reset_daily_count on the table, with     *)
(* any identifier and the limits of Limits.                                *)
(***************************************************************************)
\* settings.daily_interaction_limit as config.py sets it
default_daily_interaction_limit == 20
Limits == {daily_interaction_limit, default_daily_interaction_limit}

RECURSIVE Sum(_, _)
Sum(f, keys) ==
    IF keys = {} THEN 0
    ELSE LET k == CHOOSE x \in keys : TRUE IN f[k] + Sum(f, keys \ {k})

CheckRateLimit(identifier, daily_limit) ==
    /\ last_call' = [op |-> "check", identifier |-> identifier, limit |-> daily_limit,
                     exc |-> check_rate_limit(rate_limit, identifier, daily_limit, Today),
                     value |-> 0]
    /\ UNCHANGED <<records, session_call, serviceVars, pureVars>>

RecordInteraction(identifier) ==
    /\ Sum(records, DOMAIN records) < MaxRecords
    /\ rate_limit' = record_interaction(rate_limit, identifier, Today, now)
    /\ last_call' = [op |-> "record", identifier |-> identifier, limit |-> 0,
                     exc |-> NoException,
                     value |-> get_daily_interaction_count(rate_limit', identifier, Today)]
    /\ records' = [records EXCEPT ![identifier, Today] = @ + 1]
    /\ UNCHANGED <<now, conversation_store, reqs, accepted, asked, resets, pureVars,
                   session_call>>

GetRemainingInteractions(identifier, daily_limit) ==
    /\ last_call' = [op |-> "remaining", identifier |-> identifier, limit |-> daily_limit,
                     exc |-> NoException,
                     value |-> get_remaining_interactions(rate_limit, identifier,
                                                          daily_limit, Today)]
    /\ UNCHANGED <<records, session_call, serviceVars, pureVars>>

ResetDailyCount(identifier) ==
    /\ resets < MaxResets
    /\ rate_limit' = reset_daily_count(rate_limit, identifier, Today)
    /\ last_call' = [op |-> "reset", identifier |-> identifier, limit |-> 0,
                     exc |-> NoException,
                     value |-> reset_rowcount(rate_limit, identifier, Today)]
    /\ resets' = resets + 1
    /\ UNCHANGED <<records, now, conversation_store, reqs, accepted, asked, pureVars,
                   session_call>>

NextLimiter ==
    \/ \E identifier \in Identifiers, daily_limit \in Limits :
          CheckRateLimit(identifier, daily_limit)
    \/ \E identifier \in Identifiers : RecordInteraction(identifier)
    \/ \E identifier \in Identifiers, daily_limit \in Limits :
          GetRemainingInteractions(identifier, daily_limit)
    \/ \E identifier \in Identifiers \cup {"None"} : ResetDailyCount(identifier)
SpecLimiter == Init /\ [][NextLimiter]_vars

(***************************************************************************)
(* The conversation memory called directly: get_or_create_session,         *)
(* add_exchange, get_history_for_prompt and cleanup_expired_sessions on    *)
(* the store, with the clock.                                              *)
(***************************************************************************)
\* the ids a caller can supply: none, the empty string, an id of its own or
\* one that get_or_create_session generated
SuppliedIds == SessionIds \cup {NoSessionId, ""}
Exchanges(store) == Sum([sid \in DOMAIN store |-> Len(store[sid].messages)], DOMAIN store)

GetOrCreateSession(session_id, uuid) ==
    /\ session_id \in {NoSessionId, ""} => conversation_store[uuid] = NoSession
    /\ conversation_store' = get_or_create_session(conversation_store, session_id, uuid, now)
    /\ session_call' = [op |-> "get_or_create", session_id |-> session_id,
                        value |-> session_id_for(conversation_store, session_id, uuid),
                        at |-> now, flip |-> ~session_call.flip]
    /\ UNCHANGED <<now, rate_limit, reqs, accepted, asked, resets, pureVars,
                   last_call, records>>

AddExchange(session_id, question, answer) ==
    /\ conversation_store' = add_exchange(conversation_store, session_id, question, answer)
    /\ session_call' = [op |-> "add_exchange", session_id |-> session_id, value |-> 0,
                        at |-> now, flip |-> ~session_call.flip]
    /\ UNCHANGED <<now, rate_limit, reqs, accepted, asked, resets, pureVars,
                   last_call, records>>

GetHistoryForPrompt(session_id) ==
    /\ session_call' = [op |-> "get_history_for_prompt", session_id |-> session_id,
                        value |-> get_history_for_prompt(conversation_store, session_id),
                        at |-> now, flip |-> ~session_call.flip]
    /\ UNCHANGED <<now, rate_limit, conversation_store, reqs, accepted, asked, resets,
                   pureVars, last_call, records>>

CleanupExpiredSessions ==
    /\ conversation_store' = cleanup_expired_sessions(conversation_store, now)
    /\ session_call' = [op |-> "cleanup_expired_sessions", session_id |-> "",
                        value |-> Cardinality(expired_sessions(conversation_store, now)),
                        at |-> now, flip |-> ~session_call.flip]
    /\ UNCHANGED <<now, rate_limit, reqs, accepted, asked, resets, pureVars,
                   last_call, records>>

\* sessions come and go while the clock advances
NextMemory ==
    \/ \E session_id \in SuppliedIds, uuid \in Uuids : GetOrCreateSession(session_id, uuid)
    \/ \E session_id \in SessionIds, answer \in Answers :
          /\ Exchanges(conversation_store) < MaxMemoryExchanges
          /\ AddExchange(session_id, "hello", answer)
    \/ \E session_id \in SessionIds : GetHistoryForPrompt(session_id)
    \/ CleanupExpiredSessions
    \/ Tick
SpecMemory == Init /\ [][NextMemory]_vars

\* one session grows beyond max_pairs exchanges
PromptExchanges ==
    { <<"hello", <<"U","p",".","O","k">> >>, <<"who is it from?", <<" ","N","o"," ">> >> }
NextPrompt ==
    \/ \E session_id \in ClientSessionIds, uuid \in Uuids :
          GetOrCreateSession(session_id, uuid)
    \/ \E session_id \in ClientSessionIds, exchange \in PromptExchanges :
          /\ Exchanges(conversation_store) < MaxPromptExchanges
          /\ AddExchange(session_id, exchange[1], exchange[2])
    \/ \E session_id \in ClientSessionIds \cup Uuids : GetHistoryForPrompt(session_id)
SpecPrompt == Init /\ [][NextPrompt]_vars

(***************************************************************************)
(* Claims about run_agent and its pipelines (checked under SpecAgent).     *)
(***************************************************************************)
\* the validator has been called in this run of the SQL pipeline
Validated(run) == run.generated_sql # NoneValue

\* the synthesis call of this run has been made
SynthesisCalled(run) ==
    \/ run.pc \in {"synthesis", "done"}
    \/ run.pc = "failed" /\ run.exc.site = "synthesis"

\* C1: in every run of the SQL pipeline (on the SQL route or as the SQL leg
\* of the hybrid pipeline) db.run is called only with the candidate the
\* validator accepted; when the validator rejects the candidate db.run is
\* never called in that run, the validation failure is the last entry of
\* the trace and it is the result the synthesis call is given.
C1_RunOnlyAfterValidation ==
    \A r \in Reqs :
        LET run == reqs[r].sql
        IN  /\ \A i \in 1..Len(run.db_runs) :
                  /\ Validated(run)
                  /\ run.db_runs[i] = run.generated_sql
                  /\ validate_sql_query(run.db_runs[i]).is_valid
                  /\ run.validated.is_valid
            /\ (Validated(run) /\ ~run.validated.is_valid) =>
                  /\ run.db_runs = <<>>
                  /\ run.pc # "execution"
                  /\ SynthesisCalled(run)
                  /\ run.tool_trace[Len(run.tool_trace)] =
                        ValidationFailed(run.validated.error)
                  /\ run.rows_repr = ValidationFailed(run.validated.error)

\* C1 witness: the SQL leg of a hybrid request whose candidate the validator
\* rejected has returned its result without a call of db.run
C1_Witness ==
    \E r \in Reqs :
        /\ reqs[r].route = HYBRID_ROUTE
        /\ Validated(reqs[r].sql)
        /\ ~reqs[r].sql.validated.is_valid
        /\ reqs[r].sql.pc = "done"
        /\ reqs[r].sql.db_runs = <<>>

\* the calls of the language service
LlmSites == {"classification", "generation", "split", "synthesis"}
LlmFailed(q) == \E i \in 1..Len(q.failures) : q.failures[i].site \in LlmSites

\* run_agent has raised to ask_question, which answers with an error
Failed(q) == q.pc = "done" /\ q.exc # NoExc /\ q.response.status \in {500, 503}

\* when the classification call fails nothing of a pipeline is started
NothingStarted(q) ==
    /\ q.route = "-"
    /\ q.sql = NoSqlRun
    /\ q.rag = NoRagRun
    /\ q.failures = <<q.exc>>

\* C6 as stated: every failure of a call of the language service is the
\* error that reaches the caller of run_agent.
C6_SameErrorReachesCaller ==
    \A r \in Reqs :
        (reqs[r].pc = "done" /\ LlmFailed(reqs[r])) =>
            /\ Failed(reqs[r])
            /\ \A i \in 1..Len(reqs[r].failures) :
                  reqs[r].failures[i].site \in LlmSites =>
                      reqs[r].exc = reqs[r].failures[i]

\* C6: if a call of the language service fails, run_agent returns no result:
\* it raises the first exception raised in the request, which on the SQL and
\* RAG routes, for the classification and split calls and for the hybrid
\* synthesis is the failure of that call; the answer is an error, never a
\* guessed route or a default answer; and when it is the classification
\* call that failed no pipeline step has been started.
C6_FirstErrorReachesCaller ==
    \A r \in Reqs :
        LET q == reqs[r]
        IN  (q.pc = "done" /\ LlmFailed(q)) =>
                /\ Failed(q)
                /\ q.exc = q.failures[1]
                /\ q.route # HYBRID_ROUTE => q.exc.site \in LlmSites /\ Len(q.failures) = 1
                /\ \A i \in 1..Len(q.failures) :
                      q.failures[i].site \in {"classification", "split"} =>
                          q.exc = q.failures[i]
                /\ q.exc.site = "classification" => NothingStarted(q)

\* C6 witness: a request whose classification call failed has been answered
C6_Witness ==
    \E r \in Reqs :
        /\ reqs[r].pc = "done"
        /\ reqs[r].exc.site = "classification"
        /\ reqs[r].response.status = 503

\* C7: when db.run raises on a validated query the pipeline does not raise
\* that exception: its message is the result given to the synthesis call,
\* which is made, and when that call returns the pipeline returns a result
\* with route SQL whose sql_query is the generated query.
C7_ExecutionFailureRecovered ==
    \A r \in Reqs :
        LET run == reqs[r].sql
        IN  run.db_exc # NoExc =>
                /\ run.validated.is_valid
                /\ run.exc # run.db_exc
                /\ SynthesisCalled(run)
                /\ run.rows_repr = ExecutionFailed(run.db_exc)
                /\ run.pc = "done" =>
                      /\ sql_result(run).route = SQL_ROUTE
                      /\ sql_result(run).sql_query = run.generated_sql
                      /\ run.db_runs = <<run.generated_sql>>
                      /\ reqs[r].route = SQL_ROUTE =>
                            /\ reqs[r].response.status = 200
                            /\ reqs[r].response.sql_query = run.generated_sql

\* C7 witness: a request on the SQL route is answered after db.run raised
C7_Witness ==
    \E r \in Reqs :
        /\ reqs[r].route = SQL_ROUTE
        /\ reqs[r].sql.db_exc # NoExc
        /\ reqs[r].sql.pc = "done"
        /\ reqs[r].response.status = 200

(***************************************************************************)
(* Claims about the quota in ask_question (checked under Spec).            *)
(***************************************************************************)
Count(seq, x) == Cardinality({i \in 1..Len(seq) : seq[i] = x})
Position(seq, x) == CHOOSE i \in 1..Len(seq) : seq[i] = x

\* the request was turned away by the quota check
Rejected(q) == q.pc = "done" /\ q.response.status = 429

\* C8: in every request the check is made before anything is recorded; a
\* request the check turns away records nothing and starts neither the
\* router nor a pipeline; a request that passes records exactly once, before
\* run_agent is called, and the count keeps that interaction whether the
\* request is answered or fails: while no reset was made the stored count of
\* every identifier and date is the number of requests that passed.
C8_CheckThenRecordOnce ==
    /\ \A r \in Reqs :
          LET q == reqs[r]
          IN  q.pc # "idle" =>
                /\ q.events[1] = "check"
                /\ Count(q.events, "check") = 1
                /\ IF Rejected(q)
                   THEN /\ q.events = <<"check">>
                        /\ q.route = "-"
                        /\ q.sql = NoSqlRun
                        /\ q.rag = NoRagRun
                        /\ q.failures = <<>>
                   ELSE /\ Count(q.events, "record") = 1
                        /\ Count(q.events, "run_agent") = 1
                        /\ Position(q.events, "check") < Position(q.events, "record")
                        /\ Position(q.events, "record") < Position(q.events, "run_agent")
                        /\ q.rate_limit_info.current_count >= 1
    /\ resets = 0 =>
          \A k \in Identifiers \X Dates :
              get_daily_interaction_count(rate_limit, k[1], k[2]) = accepted[k]

\* C8 witness: a request that passed the check has failed, a later request
\* of the same identifier is turned away, and the failed one is counted
C8_Witness ==
    \E r1, r2 \in Reqs :
        /\ Failed(reqs[r1])
        /\ Rejected(reqs[r2])
        /\ reqs[r1].identifier = reqs[r2].identifier
        /\ resets = 0
        /\ now = 0
        /\ get_daily_interaction_count(rate_limit, reqs[r1].identifier, Today)
              = daily_interaction_limit

\* C9: no request is suspended between its check and its record, so that
\* under every interleaving of the requests the stored count of every
\* identifier and date is at most the limit, and so is, while no reset was
\* made, the number of requests accepted for it.
C9_NeverAboveLimit ==
    /\ \A r \in Reqs :
          reqs[r].pc \notin {"idle", "done"} => Count(reqs[r].events, "record") = 1
    /\ \A k \in Identifiers \X Dates :
          /\ get_daily_interaction_count(rate_limit, k[1], k[2]) <= daily_interaction_limit
          /\ resets = 0 => accepted[k] <= daily_interaction_limit

\* C9 witness: two requests of one identifier are in flight at once on a
\* date whose count has reached the limit
C9_Witness ==
    /\ reqs[1].pc \notin {"idle", "done"}
    /\ reqs[2].pc \notin {"idle", "done"}
    /\ reqs[1].identifier = reqs[2].identifier
    /\ resets = 0
    /\ accepted[reqs[1].identifier, Today] = daily_interaction_limit
    /\ get_daily_interaction_count(rate_limit, reqs[1].identifier, Today)
          = daily_interaction_limit

(***************************************************************************)
(* Claims about the limiter (checked under SpecLimiter).                   *)
(***************************************************************************)
\* C10: check_rate_limit raises exactly when today's count of the identifier
\* is at least the limit, and the exception carries the identifier, that
\* count and the limit; the calls of check change no counter, so that with
\* no reset the count of an identifier and date is the number of
\* record_interaction calls made for it; with limit 20 the check after the
\* 20th record raises with current_count 20 and limit 20.
C10_CheckFailsIffAtLimit ==
    /\ last_call.op = "check" =>
          LET current == get_daily_interaction_count(rate_limit, last_call.identifier, Today)
          IN  /\ last_call.exc.raised <=> current >= last_call.limit
              /\ last_call.exc.raised =>
                    /\ last_call.exc.identifier = last_call.identifier
                    /\ last_call.exc.current_count = current
                    /\ last_call.exc.limit = last_call.limit
    /\ resets = 0 =>
          \A k \in Identifiers \X Dates :
              get_daily_interaction_count(rate_limit, k[1], k[2]) = records[k]
    /\ ( /\ last_call.op = "check"
         /\ last_call.limit = 20
         /\ resets = 0
         /\ records[last_call.identifier, Today] = 20 ) =>
            /\ last_call.exc.raised
            /\ last_call.exc.current_count = 20
            /\ last_call.exc.limit = 20

\* C10 witness: the check after the 20th record, with limit 20, has raised
C10_Witness ==
    /\ last_call.op = "check"
    /\ last_call.limit = 20
    /\ resets = 0
    /\ records[last_call.identifier, Today] = 20
    /\ last_call.exc.raised
    /\ last_call.exc.current_count = 20

(***************************************************************************)
(* The table under record_interaction, reset_daily_count and the clock     *)
(* (SpecTable): two identifiers, two dates.                                *)
(***************************************************************************)
NextTable ==
    \/ \E identifier \in Identifiers :
          /\ Sum(records, DOMAIN records) < MaxTableRecords
          /\ RecordInteraction(identifier)
    \/ \E identifier \in Identifiers \cup {"None", ""} : ResetDailyCount(identifier)
    \/ Tick
SpecTable == Init /\ [][NextTable]_vars

\* at most one row per (identifier, date)
UniqueRows(table) ==
    \A r1, r2 \in table :
        (r1.identifier = r2.identifier /\ r1.date = r2.date) => r1 = r2

\* a step that is a call of record_interaction
RecordStep == last_call'.op = "record" /\ records' # records

\* C11: record_interaction upserts today's row of the identifier: a step of
\* it leaves exactly one row for (identifier, today), with count 1 if there
\* was none and the old count plus 1 otherwise, stamped with the time of
\* the call; it returns that count; every other row is as before. And in
\* every state the table has at most one row per (identifier, date).
C11_RecordUpserts ==
    /\ [](UniqueRows(rate_limit))
    /\ [][RecordStep =>
            LET identifier == last_call'.identifier
                before == RowsOf(rate_limit, identifier, Today)
                after == RowsOf(rate_limit', identifier, Today)
            IN  /\ Cardinality(after) = 1
                /\ \A row \in after :
                      /\ row.interaction_count =
                            IF before = {} THEN 1
                            ELSE get_daily_interaction_count(rate_limit, identifier, Today) + 1
                      /\ row.last_interaction_at = now
                      /\ last_call'.value = row.interaction_count
                /\ rate_limit' \ after = rate_limit \ before]_vars

\* C11 witness: a record has incremented an existing row to 2 while a row of
\* another date and a row of another identifier are in the table
C11_Witness ==
    /\ last_call.op = "record"
    /\ last_call.value = 2
    /\ \E row \in rate_limit : row.date # Today
    /\ \E row \in rate_limit : row.identifier # last_call.identifier

\* a step that is a call of reset_daily_count
ResetStep == last_call'.op = "reset" /\ resets' # resets

\* the rows of the table apart from their counts
Uncounted(table) ==
    {[identifier |-> row.identifier, date |-> row.date,
      last_interaction_at |-> row.last_interaction_at] : row \in table}

\* the effect of a reset step that sets to 0 the rows zeroed and returns
\* their number
ResetsExactly(zeroed) ==
    /\ Uncounted(rate_limit') = Uncounted(rate_limit)
    /\ Cardinality(rate_limit') = Cardinality(rate_limit)
    /\ rate_limit \ zeroed \subseteq rate_limit'
    /\ \A row \in zeroed : [row EXCEPT !.interaction_count = 0] \in rate_limit'
    /\ last_call'.value = Cardinality(zeroed)

Accepted(q) == q.pc # "idle" /\ q.rate_limit_info # NoInfo

\* C13: the rate limit info of an accepted request has a current_count
\* between 1 and daily_limit, and remaining_interactions equal to
\* daily_limit - current_count (which is max(0, daily_limit - current_count)).
C13_InfoOfAcceptedRequest ==
    \A r \in Reqs :
        Accepted(reqs[r]) =>
            LET info == reqs[r].rate_limit_info
            IN  /\ info.current_count >= 1
                /\ info.current_count <= info.daily_limit
                /\ info.remaining_interactions = info.daily_limit - info.current_count

\* a leg of the hybrid pipeline: scheduled by the gather, ended by a return
\* or by an exception
LegScheduled(run) == run.pc # "off"
LegReturned(run) == run.pc = "done"
LegRaised(run) == run.pc = "failed"

\* the hybrid synthesis call of request q is being made, or has given the
\* answer of the request
MergeCalled(q) ==
    \/ q.pc = "merge"
    \/ q.pc = "done" /\ q.route = HYBRID_ROUTE /\ q.response.status = 200

\* C14: in the hybrid pipeline both legs have been scheduled by the gather
\* before either of them ends; the hybrid synthesis call is made only when
\* both legs have returned a result; when a leg raises, the call is never
\* made, the request gets no result and the exception that run_agent raises
\* is that of a leg that raised, the first one.
C14_BothLegsOrNothing ==
    \A r \in Reqs :
        LET q == reqs[r]
        IN  q.route = HYBRID_ROUTE =>
                /\ (LegReturned(q.sql) \/ LegRaised(q.sql) \/ LegReturned(q.rag) \/ LegRaised(q.rag)) =>
                      LegScheduled(q.sql) /\ LegScheduled(q.rag)
                /\ MergeCalled(q) => LegReturned(q.sql) /\ LegReturned(q.rag)
                /\ (LegRaised(q.sql) \/ LegRaised(q.rag)) =>
                      /\ ~MergeCalled(q)
                      /\ q.response.status # 200
                      /\ q.pc = "done" =>
                            /\ Failed(q)
                            /\ q.exc = q.failures[1]
                            /\ q.exc \in {q.sql.exc, q.rag.exc}

\* C14 witness: a hybrid request has been answered with the error of its RAG
\* leg, while its SQL leg has returned a result
C14_Witness ==
    \E r \in Reqs :
        /\ reqs[r].route = HYBRID_ROUTE
        /\ reqs[r].pc = "done"
        /\ LegRaised(reqs[r].rag)
        /\ LegReturned(reqs[r].sql)
        /\ reqs[r].exc = reqs[r].rag.exc
        /\ reqs[r].response.status \in {500, 503}

\* the request q has been answered with the result of the hybrid pipeline
HybridAnswered(q) ==
    q.route = HYBRID_ROUTE /\ q.pc = "done" /\ q.response.status = 200

\* C15: the tool_trace of every answered hybrid request is, in this order:
\* the router decision, the SQL sub-question, the RAG sub-question, the
\* entries of the SQL leg in the order the leg wrote them, the entries of
\* the RAG leg in the order the leg wrote them, and the completion entry,
\* whichever leg ended first.
C15_HybridTraceOrder ==
    \A r \in Reqs :
        LET q == reqs[r]
            trace == q.response.tool_trace
            sql_entries == q.sql.tool_trace
            rag_entries == q.rag.tool_trace
        IN  HybridAnswered(q) =>
                /\ Len(sql_entries) >= 1
                /\ Len(rag_entries) >= 1
                /\ Len(trace) = 3 + Len(sql_entries) + Len(rag_entries) + 1
                /\ trace[1] = <<"Router decision: ", "HYBRID">>
                /\ trace[2] = <<"Hybrid split -> SQL question: ", q.sql.question>>
                /\ trace[3] = <<"Hybrid split -> RAG question: ", q.rag.question>>
                /\ \A i \in 1..Len(sql_entries) : trace[3 + i] = sql_entries[i]
                /\ \A i \in 1..Len(rag_entries) :
                      trace[3 + Len(sql_entries) + i] = rag_entries[i]
                /\ trace[Len(trace)] = <<"Hybrid synthesis completed">>
                /\ \A i \in 1..Len(sql_entries), j \in 1..Len(rag_entries) :
                      sql_entries[i] # rag_entries[j]

\* C15 witness: a hybrid request is answered whose RAG leg ended before its
\* SQL leg
C15_Witness ==
    \E r \in Reqs :
        /\ HybridAnswered(reqs[r])
        /\ reqs[r].finished = <<RAG_ROUTE, SQL_ROUTE>>
        /\ Len(reqs[r].sql.tool_trace) >= 3

\* C16: when the reply of the split call cannot be parsed into the two
\* sub-questions (it is not JSON, or it is JSON but not an object), the
\* hybrid run does not fail at the split: both legs are scheduled and each
\* runs on the original question; and no leg ever runs on an empty question.
C16_UnparseableSplitFallsBack ==
    \A r \in Reqs :
        LET q == reqs[r]
        IN  /\ q.split_json \in {"invalid", "other"} =>
                  /\ \A i \in 1..Len(q.failures) : q.failures[i].site # "split_parse"
                  /\ LegScheduled(q.sql) /\ q.sql.question = q.question
                  /\ LegScheduled(q.rag) /\ q.rag.question = q.question
            /\ LegScheduled(q.sql) => q.sql.question # ""
            /\ LegScheduled(q.rag) => q.rag.question # ""

(***************************************************************************)
(* Claims about the conversation memory (checked under SpecMemory and      *)
(* SpecPrompt).                                                            *)
(***************************************************************************)
\* a call of the conversation memory is made in this step
SessionStep(op) == session_call'.op = op /\ session_call'.flip # session_call.flip

\* the id names a session of the store
Existing(store, session_id) ==
    session_id \in DOMAIN store /\ store[session_id] # NoSession

\* what get_or_create_session(supplied) does in this step when supplied is
\* taken as an id, and when it is taken as no id
KeepsOrCreates(supplied) ==
    /\ session_call'.value = supplied
    /\ supplied \in DOMAIN conversation_store
    /\ conversation_store' =
          IF Existing(conversation_store, supplied) THEN conversation_store
          ELSE [conversation_store EXCEPT
                   ![supplied] = [created_at |-> now, messages |-> <<>>]]
CreatesFresh ==
    LET generated == session_call'.value
    IN  /\ generated \in DOMAIN conversation_store
        /\ ~Existing(conversation_store, generated)
        /\ conversation_store' =
              [conversation_store EXCEPT
                  ![generated] = [created_at |-> now, messages |-> <<>>]]

C19_CleanupRemovesExpired ==
    [][SessionStep("cleanup_expired_sessions") =>
        LET store == conversation_store
            expired == {sid \in DOMAIN store :
                           /\ Existing(store, sid)
                           /\ now - store[sid].created_at > session_ttl_seconds}
        IN  /\ \A sid \in expired : ~Existing(conversation_store', sid)
            /\ \A sid \in DOMAIN store \ expired : conversation_store'[sid] = store[sid]
            /\ session_call'.value = Cardinality(expired)
            /\ (session_call.op = "cleanup_expired_sessions" /\ session_call.at = now) =>
                  /\ session_call'.value = 0
                  /\ conversation_store' = store]_vars

\* C19 witness: a call has removed one session and kept another, which is
\* as old as the TTL and has an exchange
C19_Witness ==
    /\ session_call.op = "cleanup_expired_sessions"
    /\ session_call.value = 1
    /\ session_call.at = now
    /\ \E sid \in DOMAIN conversation_store :
          /\ Existing(conversation_store, sid)
          /\ now - conversation_store[sid].created_at = session_ttl_seconds
          /\ conversation_store[sid].messages # <<>>

\* the exchanges get_history_for_prompt has to render: the last
\* Min(max_pairs, count) of the session, oldest first
Recent(messages) ==
    [i \in 1..Min(max_pairs, Len(messages)) |->
        messages[Len(messages) - Min(max_pairs, Len(messages)) + i]]

\* the lines of the prompt render these exchanges, in their order, the
\* answers as Shown gives them, and nothing else between header and rules
Renders(lines, recent, Shown(_)) ==
    /\ Len(lines) = 1 + 3 * Len(recent) + Len(ContextRules)
    /\ lines[1] = <<"=== PREVIOUS CONVERSATION CONTEXT ===">>
    /\ \A i \in 1..Len(recent) :
          /\ lines[3 * i - 1] = <<"\n[Exchange ", i, "]">>
          /\ lines[3 * i] = <<"User: ", recent[i][1]>>
          /\ lines[3 * i + 1] = <<"Assistant: ">> \o Shown(recent[i][2])
    /\ SubSeq(lines, 2 + 3 * Len(recent), Len(lines)) = ContextRules

\* the answer as it is
Whole(answer) == answer

\* what get_history_for_prompt returned, given what is shown of an answer
PromptOf(Shown(_)) ==
    session_call.op = "get_history_for_prompt" =>
        LET sid == session_call.session_id
            lines == session_call.value
        IN  IF ~Existing(conversation_store, sid) \/ conversation_store[sid].messages = <<>>
            THEN lines = <<>>
            ELSE Renders(lines, Recent(conversation_store[sid].messages), Shown)

\* C18 as stated: get_history_for_prompt renders exactly the last
\* Min(max_pairs, count) exchanges of the session in the order they were
\* added, each with its question and its answer text, and is empty when the
\* session has no exchange or the id names no session.
C18_PromptShowsAnswers == PromptOf(Whole)

\* C18: get_history_for_prompt renders exactly the last Min(max_pairs,
\* count) exchanges of the session in the order they were added, each with
\* its question and the part of its answer before the first '.', and is
\* empty when the session has no exchange or the id names no session.
C18_PromptShowsFirstSentences == PromptOf(FirstSentence)

\* C18 witness: the prompt of a session of more than max_pairs exchanges has
\* been rendered, the oldest and the most recent exchange being different
C18_Witness ==
    /\ session_call.op = "get_history_for_prompt"
    /\ Existing(conversation_store, session_call.session_id)
    /\ LET messages == conversation_store[session_call.session_id].messages
       IN  /\ Len(messages) > max_pairs
           /\ messages[1] # messages[Len(messages)]
           /\ messages[1] # messages[Len(messages) - max_pairs + 1]
    /\ Len(session_call.value) = 1 + 3 * max_pairs + Len(ContextRules)

(***************************************************************************)
(* Claims about the result of run_agent (checked under SpecAgent).         *)
(***************************************************************************)
\* run_agent has returned a result for request q, which ask_question answers
Answered(q) == q.pc = "done" /\ q.response.status = 200

\* C20: the result run_agent returns has, on the SQL route, no citations and
\* as sql_query the query the pipeline generated, also when the validator
\* rejected it or db.run raised; on the RAG route no sql_query; on the
\* HYBRID route the sql_query of its SQL leg and the citations of its RAG
\* leg; and when no route was decided neither sql_query nor citations.
C20_ResultFieldsByRoute ==
    \A r \in Reqs :
        LET q == reqs[r]
        IN  Answered(q) =>
                /\ q.route = SQL_ROUTE =>
                      /\ q.response.citations = <<>>
                      /\ Validated(q.sql)
                      /\ q.response.sql_query = q.sql.generated_sql
                      /\ q.rag = NoRagRun
                /\ q.route = RAG_ROUTE =>
                      /\ q.response.sql_query = NoneValue
                      /\ q.response.citations = q.rag.citations
                      /\ q.sql = NoSqlRun
                /\ q.route = HYBRID_ROUTE =>
                      /\ Validated(q.sql)
                      /\ q.response.sql_query = q.sql.generated_sql
                      /\ q.response.citations = q.rag.citations
                /\ q.route \notin {SQL_ROUTE, RAG_ROUTE, HYBRID_ROUTE} =>
                      /\ q.response.sql_query = NoneValue
                      /\ q.response.citations = <<>>
                      /\ q.sql = NoSqlRun
                      /\ q.rag = NoRagRun

\* C20 witness: a hybrid request is answered with the query of its SQL leg,
\* which the validator rejected, and the citations of its RAG leg
C20_Witness ==
    \E r \in Reqs :
        /\ Answered(reqs[r])
        /\ reqs[r].route = HYBRID_ROUTE
        /\ ~reqs[r].sql.validated.is_valid
        /\ reqs[r].response.sql_query = reqs[r].sql.generated_sql
        /\ reqs[r].response.sql_query # <<>>
        /\ reqs[r].response.citations # <<>>

(***************************************************************************)
(* Claims about the trace and the answers of run_agent.                    *)
(***************************************************************************)
\* the entry that records the routing decision of a result of this route
DecisionEntry(result_route) ==
    <<"Router decision: ",
      IF result_route = "UNKNOWN" THEN "INSUFFICIENT CONTEXT" ELSE result_route>>

IsPrefix(s, t) == Len(s) <= Len(t) /\ SubSeq(t, 1, Len(s)) = s

\* the entries the pipelines of request q wrote, in the order run_agent
\* gives them
PipelineEntries(q) ==
    IF q.result_route = SQL_ROUTE THEN q.sql.tool_trace
    ELSE IF q.result_route = RAG_ROUTE THEN q.rag.tool_trace
    ELSE IF q.result_route = HYBRID_ROUTE
    THEN << <<"Hybrid split -> SQL question: ", q.sql.question>>,
            <<"Hybrid split -> RAG question: ", q.rag.question>> >>
         \o q.sql.tool_trace \o q.rag.tool_trace
         \o << <<"Hybrid synthesis completed">> >>
    ELSE <<>>

\* C21: the tool_trace of every result of run_agent is not empty; its first
\* entry is the routing decision of the result's route ("SQL", "RAG",
\* "HYBRID", and "INSUFFICIENT CONTEXT" for route UNKNOWN); the entries
\* after it are those the pipeline wrote, in the order it wrote them, none
\* of them a routing decision; and a pipeline only ever appends to its trace.
C21_TraceStartsWithDecision ==
    /\ [](\A r \in Reqs :
            LET q == reqs[r]
                trace == q.response.tool_trace
            IN  Answered(q) =>
                    /\ q.result_route \in {SQL_ROUTE, RAG_ROUTE, HYBRID_ROUTE, "UNKNOWN"}
                    /\ q.result_route = (IF q.route = NONE_ROUTE THEN "UNKNOWN" ELSE q.route)
                    /\ trace # <<>>
                    /\ trace[1] = DecisionEntry(q.result_route)
                    /\ Tail(trace) = PipelineEntries(q)
                    /\ \A i \in 2..Len(trace) : trace[i][1] # "Router decision: ")
    /\ [][\A r \in Reqs :
            reqs'[r].pc # "idle" =>
                /\ IsPrefix(reqs[r].sql.tool_trace, reqs'[r].sql.tool_trace)
                /\ IsPrefix(reqs[r].rag.tool_trace, reqs'[r].rag.tool_trace)]_vars

\* C21 witness: a request on the SQL route is answered with a trace of the
\* decision and three entries of the pipeline
C21_Witness ==
    \E r \in Reqs :
        /\ Answered(reqs[r])
        /\ reqs[r].result_route = SQL_ROUTE
        /\ Len(reqs[r].response.tool_trace) = 4
        /\ reqs[r].response.tool_trace[1] = <<"Router decision: ", "SQL">>

\* C22: when the router decides NONE run_agent raises nothing and starts no
\* pipeline (no search, no SQL generation, no execution, no synthesis): the
\* request is answered with the fixed insufficient-context message, route
\* UNKNOWN, no sql_query, no citations and the one trace entry
\* "Router decision: INSUFFICIENT CONTEXT".
C22_NoneRunsNothing ==
    \A r \in Reqs :
        LET q == reqs[r]
        IN  q.route = NONE_ROUTE =>
                /\ Answered(q)
                /\ q.exc = NoExc /\ q.failures = <<>>
                /\ q.sql = NoSqlRun /\ q.rag = NoRagRun
                /\ q.finished = <<>>
                /\ q.result_route = "UNKNOWN"
                /\ q.response.answer = insufficient_context_message
                /\ q.response.sql_query = NoneValue
                /\ q.response.citations = <<>>
                /\ q.response.tool_trace =
                      << <<"Router decision: ", "INSUFFICIENT CONTEXT">> >>

\* C22 witness: a question with words of both kinds, for which the router
\* replied NONE, has been answered
C22_Witness ==
    \E r \in Reqs :
        /\ reqs[r].route = NONE_ROUTE
        /\ reqs[r].pc = "done"
        /\ looks_structured(reqs[r].question)
        /\ looks_documentary(reqs[r].question)
        /\ reqs[r].response.status = 200

(***************************************************************************)
(* Claims about the citations (checked under SpecCite).                    *)
(***************************************************************************)
\* the rules of the labels, in their order: the words looked for in the
\* source without regard to case, and the label
LabelRules ==
    << [words |-> {<<"c","o","n","t","r","a","c","t">>},
        label |-> <<"Contract Document">>],
       [words |-> {<<"m","a","n","u","a","l">>, <<"r","a","v","4">>, <<"y","a","r","i","s">>},
        label |-> <<"Manual Document">>],
       [words |-> {<<"w","a","r","r","a","n","t","y">>, <<"p","o","l","i","c","y">>},
        label |-> <<"Policy Document">>],
       [words |-> {<<"a","p","p","e","n","d","i","x">>},
        label |-> <<"Policy Appendix">>] >>

GenericLabels == {LabelRules[i].label : i \in DOMAIN LabelRules} \cup {<<"Document">>}

Matches(source, rule) == \E w \in rule.words : Contains(Lower(source), w)

\* C23: the source_document of every citation is one of the five generic
\* labels, not the source of the passage: the label of the first rule, in
\* the order contract; manual or a model name; warranty or policy;
\* appendix, of which the source contains a word, and "Document" when it
\* contains none or is missing.
C23_CitationLabel ==
    cpc = "built" =>
        /\ citation.source_document \in GenericLabels
        /\ citation.source_document # doc_source
        /\ \A i \in DOMAIN LabelRules :
              (/\ Matches(doc_source, LabelRules[i])
               /\ \A j \in 1..(i - 1) : ~Matches(doc_source, LabelRules[j])) =>
                  citation.source_document = LabelRules[i].label
        /\ (\A i \in DOMAIN LabelRules : ~Matches(doc_source, LabelRules[i])) =>
              citation.source_document = <<"Document">>

\* C23 witness: the citation of a passage whose source names a warranty
\* manual has been built
C23_Witness ==
    /\ cpc = "built"
    /\ doc_source = <<"W","a","r","r","a","n","t","y">> \o <<"M","A","N","U","A","L">>
    /\ citation.source_document = <<"Manual Document">>

\* C24: no answer carries the text of an internal error in its tool_trace
\* or its citations: the message of an exception db.run raised is in no
\* entry of the tool_trace and in no citation of the answer.
C24_NoErrorTextInAnswer ==
    \A r \in Reqs :
        LET q == reqs[r]
        IN  (Answered(q) /\ q.sql.db_exc # NoExc) =>
                /\ \A i \in 1..Len(q.response.tool_trace) :
                      ~Contains(q.response.tool_trace[i], q.sql.db_exc.message)
                /\ \A i \in 1..Len(q.response.citations) :
                      /\ ~Contains(q.response.citations[i].content, q.sql.db_exc.message)
                      /\ ~Contains(q.response.citations[i].source_document,
                                   q.sql.db_exc.message)

(***************************************************************************)
(* Claims about the requests and the conversation memory (checked under    *)
(* Spec).                                                                  *)
(***************************************************************************)
\* request r is answered in this step, and its run_agent raises in this step
Completes(r) == reqs[r].pc \notin {"idle", "done"} /\ Answered(reqs'[r])
Fails(r) ==
    /\ reqs[r].pc \notin {"idle", "done"}
    /\ reqs'[r].pc = "done"
    /\ reqs'[r].response.status \in {500, 503}

\* C25: the step in which run_agent returns to a request appends one
\* exchange, the request's question and its answer, to the messages of the
\* request's session and changes nothing else of the store; the step in
\* which run_agent raises changes nothing of the store; whatever other
\* requests have done meanwhile, their sweeps included.
C25_OneExchangePerAnswer ==
    [][\A r \in Reqs :
          /\ Completes(r) =>
                LET sid == reqs'[r].session_id
                IN  /\ conversation_store'[sid].messages =
                          Append(conversation_store[sid].messages,
                                 <<reqs'[r].question, reqs'[r].response.answer>>)
                    /\ conversation_store'[sid].created_at =
                          conversation_store[sid].created_at
                    /\ \A other \in DOMAIN conversation_store \ {sid} :
                          conversation_store'[other] = conversation_store[other]
          /\ Fails(r) => conversation_store' = conversation_store]_vars

(***************************************************************************)
(* Claims about the code-fence stripping (checked under SpecAgent).        *)
(***************************************************************************)
\* the statements the generation call wraps, the language tags after the
\* opening fence, and the reply that wraps a statement in a code fence
Statements == {SELECT \o <<" ","1">>, <<"D","R","O","P">> \o TABLE_x}
LanguageTags == {<<>>, <<"s","q","l">>}
Wrapped(statement, tag) ==
    Fence \o tag \o <<"\n">> \o statement \o <<"\n">> \o Fence

\* C26: whenever the generation call replied with a statement wrapped in a
\* code fence, with the tag sql after the opening fence or without a tag,
\* the candidate that was validated holds no code fence and is the
\* statement alone, and so is the sql_query of the answer.
C26_FenceStrippedToStatement ==
    \A r \in Reqs, statement \in Statements, tag \in LanguageTags :
        LET run == reqs[r].sql
        IN  run.content = Wrapped(statement, tag) =>
                /\ ~Contains(run.generated_sql, Fence)
                /\ run.generated_sql = statement
                /\ run.validated = validate_sql_query(statement)
                /\ (reqs[r].route = SQL_ROUTE /\ Answered(reqs[r])) =>
                      reqs[r].response.sql_query = statement


\* request r arrives in this step: ask_question runs its sweep, its session
\* lookup and its quota check
Arrives(r) == reqs[r].pc = "idle" /\ reqs'[r].pc # "idle"
FreshSession(t) == [created_at |-> t, messages |-> <<>>]

\* C27: no step changes the created_at of a session it keeps, the steps that
\* add an exchange and the arrivals that find their session included; the
\* arrival of a request (whose sweep comes first) removes every session
\* older than the TTL, whatever its messages, and no other; and a request
\* that carries the id of a session so removed gets a new empty session
\* under that id and an empty conversation context.
C27_ExpiryByCreationTime ==
    [][/\ (\A r \in Reqs : ~Arrives(r)) =>
              \A sid \in SessionIds :
                  conversation_store'[sid].created_at = conversation_store[sid].created_at
       /\ \A r \in Reqs : Arrives(r) =>
              \A sid \in SessionIds :
                  IF sid \in expired_sessions(conversation_store, now)
                  THEN IF reqs'[r].session_id = sid
                       THEN /\ conversation_store'[sid] = FreshSession(now)
                            /\ reqs'[r].conversation_history = <<>>
                       ELSE /\ conversation_store'[sid] = NoSession
                            /\ reqs'[r].payload_session_id # sid
                  ELSE conversation_store[sid] # NoSession =>
                          conversation_store'[sid] = conversation_store[sid]]_vars

\* C27 witness: a request that carried the id s1 waits with an empty context
\* under the session s1 created anew at its arrival, while the request that
\* arrived before it under s1 has been answered
C27_Witness ==
    \E r1, r2 \in Reqs :
        /\ Answered(reqs[r1])
        /\ reqs[r1].session_id = "s1"
        /\ reqs[r1].rate_limit_info.current_count < reqs[r2].rate_limit_info.current_count
        /\ reqs[r2].pc \notin {"idle", "done"}
        /\ reqs[r2].payload_session_id = "s1"
        /\ reqs[r2].session_id = "s1"
        /\ reqs[r2].conversation_history = <<>>
        /\ conversation_store["s1"] = FreshSession(1)


(***************************************************************************)
(* Claims about the failures of run_agent (checked under SpecAgent).       *)
(***************************************************************************)
ServiceUnavailable ==
    [NoResponse EXCEPT
        !.status = 503,
        !.detail = <<"External service temporarily unavailable. Please try again later.">>]
InternalError ==
    [NoResponse EXCEPT
        !.status = 500,
        !.detail = <<"An internal error occurred while processing your request.">>]
\* run_agent raised to request q
RunAgentRaised(q) == q.pc = "done" /\ q.exc # NoExc

\* C28: a request to which run_agent raised is answered with the fixed 503
\* when the exception counts as one of the language service or the network,
\* and with the fixed 500 otherwise, and with nothing else; the step in
\* which run_agent raises adds no exchange to the conversation store; and
\* no request is answered 500 or 503 otherwise.
C28_FixedFailureAnswers ==
    /\ [](\A r \in Reqs :
            /\ RunAgentRaised(reqs[r]) =>
                  reqs[r].response = IF is_openai_api_error(reqs[r].exc)
                                     THEN ServiceUnavailable ELSE InternalError
            /\ (reqs[r].pc = "done" /\ ~RunAgentRaised(reqs[r])) =>
                  reqs[r].response.status \in {200, 429})
    /\ [][\A r \in Reqs :
            (reqs[r].pc \notin {"idle", "done"} /\ RunAgentRaised(reqs'[r])) =>
                conversation_store' = conversation_store]_vars

\* C28 witness: a request whose generation call raised KeyError is answered
\* 500, its session holding no exchange
C28_Witness ==
    \E r \in Reqs :
        /\ RunAgentRaised(reqs[r])
        /\ reqs[r].exc.site = "generation"
        /\ ~is_openai_api_error(reqs[r].exc)
        /\ reqs[r].response.status = 500
        /\ conversation_store[reqs[r].session_id] # NoSession
        /\ conversation_store[reqs[r].session_id].messages = <<>>


\* the ids of the sessions of a store
Sessions(store) == {sid \in SessionIds : store[sid] # NoSession}

\* C29: the arrival of a request that supplies no session id, or an id that
\* names no session once the sweep has run, adds exactly one session to the
\* sessions the sweep keeps, empty and created at the arrival, whether the
\* request is then rejected by the quota check or goes on to its pipeline;
\* the step in which its pipeline fails leaves the store as it is; and a
\* session leaves the store only in the sweep of an arrival that finds it
\* older than the TTL.
C29_SessionLeftBehind ==
    [][/\ \A r \in Reqs :
            LET supplied == reqs'[r].payload_session_id
                kept == Sessions(conversation_store) \
                            expired_sessions(conversation_store, now)
                sid == reqs'[r].session_id
            IN  (Arrives(r) /\ (supplied = NoSessionId \/ supplied \notin kept)) =>
                    /\ sid \notin kept
                    /\ Sessions(conversation_store') = kept \cup {sid}
                    /\ conversation_store'[sid] = FreshSession(now)
                    /\ \A other \in kept :
                          conversation_store'[other] = conversation_store[other]
       /\ \A r \in Reqs : Fails(r) => conversation_store' = conversation_store
       /\ \A sid \in Sessions(conversation_store) \ Sessions(conversation_store') :
            /\ \E r \in Reqs : Arrives(r)
            /\ now - conversation_store[sid].created_at > session_ttl_seconds]_vars

\* C29 witness: a request that supplied no session id has been rejected by
\* the quota check, and the session made for it is in the store, empty
C29_Witness ==
    \E r \in Reqs :
        /\ Rejected(reqs[r])
        /\ reqs[r].payload_session_id = NoSessionId
        /\ reqs[r].session_id \in Sessions(conversation_store)
        /\ conversation_store[reqs[r].session_id].messages = <<>>


\* C30: the conversation context of a request is that of the messages its
\* session held when the request arrived, and no later step changes it; and
\* a request that overlaps another of its session (one was suspended under
\* the session when it arrived, or one is when it completes) has its
\* exchange put after all the messages of the session in the step in which
\* it completes, whichever of them arrived first.
C30_SnapshotAndCompletionOrder ==
    /\ [](\A r \in Reqs :
            reqs[r].pc # "idle" =>
                reqs[r].conversation_history = format_for_prompt(reqs[r].snapshot))
    /\ [][\A r \in Reqs :
            /\ reqs[r].pc # "idle" /\ reqs'[r].pc # "idle" =>
                  reqs'[r].conversation_history = reqs[r].conversation_history
            /\ LET sid == reqs'[r].session_id
               IN  (/\ Completes(r)
                    /\ \/ reqs[r].overlapping
                       \/ \E o \in Reqs \ {r} : InFlightUnder(reqs[o], sid)) =>
                       conversation_store'[sid].messages =
                           Append(conversation_store[sid].messages,
                                  <<reqs'[r].question, reqs'[r].response.answer>>)]_vars

====
